---- MODULE Spec2Model ----
(***************************************************************************)
(* monitoring-rs: the append-only log store (src/log_database/mod.rs) and  *)
(* the directory log collector (src/log_collector/directory.rs).           *)
(*                                                                         *)
(* Strings are sequences of bytes (0..255).  A HashMap is a set of         *)
(* <<key, value>> pairs with pairwise distinct keys; whenever the code     *)
(* iterates a HashMap or a HashSet the iteration order is an input of the  *)
(* action (a sequence enumerating the set).                                *)
(***************************************************************************)
EXTENDS Integers, Sequences, FiniteSets, TLC

VARIABLES
    \* ---- log store (Database) and its data directory
    datFiles,     \* data directory: fingerprint -> bytes of <fingerprint>.dat
    jsonFiles,    \* data directory: fingerprint -> entries of <fingerprint>.json
    files,        \* Database.files: fingerprints with an open data file
    index,        \* Database.index: <<label, value>> -> set of fingerprints
    written,      \* history: the records written so far, in write order
    lastQuery,    \* the last query made and what it returned
    \* ---- the file system the collector watches, and the watcher
    root_target,  \* the canonical path of the configured root directory
    dirEntries,   \* names of the entries of the root directory
    content,      \* file path -> bytes of the file
    pending,      \* the watcher's unread events (descriptors), oldest first
    \* ---- directory collector (Collector)
    phase,        \* "new" before Collector::initialize, then "running"
    watched_files,  \* Collector.watched_files: descriptor -> WatchedFile
    watched_paths,  \* Collector.watched_paths: path -> descriptor
    \* ---- history of the collector's run
    preLen,       \* file -> bytes at its front that predate its registration
    truncPending, \* file -> truncated since the collector last read it
    budget,       \* appends and truncations the environment has made
    lastBatch,    \* what the last collect_entries call read and returned
    watch_calls,  \* calls of watch_directory, watch_file and File::open per path
    \* ---- the collector as a stream (Iterator::next)
    entry_buf,    \* Collector.entry_buf: collected records not yet returned
    lastNext,     \* what the last call of next() was given and returned
    emitted,      \* descriptor -> the lines of the batches collected for next()
    \* ---- HTTP API (read_logs) over the store shared behind the RwLock
    handlers,     \* request handler -> where it is in read_logs and its result
    filePos,      \* fingerprint -> offset of the store's open data file handle
    rwlock,       \* the handlers that hold the store's lock for reading
    \* ---- Database::open over a data directory with any entries
    dataDir,      \* the entries of the data directory handed to open
    opened,       \* what the calls of Database::open returned, oldest first
    \* ---- Kubernetes collector (metadata enricher)
    kubeIn,       \* what the directory collector's next() hands the enricher
    kubeOut,      \* what the enricher's next() did with it
    \* ---- event database (database module)
    evPath,       \* the path the event database is opened at
    evFile,       \* the file at that path
    evDb,         \* the open event database, if any
    evPushed,     \* history: the events pushed so far, in push order
    evQuery       \* the last query of the event database and its result

storeVars == <<datFiles, jsonFiles, files, index, written, lastQuery>>

collectorVars == <<root_target, dirEntries, content, pending, phase, watched_files,
                   watched_paths, preLen, truncPending, budget, lastBatch,
                   watch_calls, entry_buf, lastNext, emitted>>

apiVars == <<handlers, filePos, rwlock>>

openVars == <<dataDir, opened>>

kubeVars == <<kubeIn, kubeOut>>

eventVars == <<evPath, evFile, evDb, evPushed, evQuery>>

vars == <<datFiles, jsonFiles, files, index, written, lastQuery,
          root_target, dirEntries, content, pending, phase, watched_files,
          watched_paths, preLen, truncPending, budget, lastBatch,
          watch_calls, entry_buf, lastNext, emitted,
          handlers, filePos, rwlock,
          dataDir, opened, kubeIn, kubeOut,
          evPath, evFile, evDb, evPushed, evQuery>>

----------------------------------------------------------------------------
(* Bounds and input universes of the store                                 *)

MaxWrites == 2

DATA_FILE_RECORD_SEPARATOR == 147

\* label names "a", "ab" and label values "c", "bc" (non-empty strings)
LabelNames == {<<97>>, <<97, 98>>}
LabelValues == {<<99>>, <<98, 99>>}
AllPairs == LabelNames \X LabelValues

\* every HashMap<String, String> over the labels above
MetadataMaps ==
    {m \in SUBSET AllPairs : \A p, q \in m : p[1] = q[1] => p = q}

\* log lines: "", "x" and "Ó" (U+00D3, UTF-8 bytes C3 93)
StoreLines == {<<>>, <<120>>, <<195, 147>>}

----------------------------------------------------------------------------
(* Helpers                                                                 *)

\* all iteration orders of a finite set
RECURSIVE Orderings(_)
Orderings(S) ==
    IF S = {} THEN {<<>>}
    ELSE UNION {{<<x>> \o s : s \in Orderings(S \ {x})} : x \in S}

SeqToSet(s) == {s[i] : i \in 1..Len(s)}

\* HashMap::insert
MapInsert(m, k, v) == [x \in DOMAIN m \cup {k} |-> IF x = k THEN v ELSE m[x]]

EmptyMap == [x \in {} |-> {}]

RECURSIVE Concat(_)
Concat(ss) == IF ss = <<>> THEN <<>> ELSE Head(ss) \o Concat(Tail(ss))

\* the bag (multiset) of the elements of a sequence
BagOfSeq(s) == [x \in SeqToSet(s) |-> Cardinality({i \in 1..Len(s) : s[i] = x})]

\* String::from_utf8: lead byte, then the continuation bytes it announces
RECURSIVE Utf8Valid(_)
Utf8Valid(b) ==
    IF b = <<>> THEN TRUE
    ELSE LET h == Head(b)
             n == IF h < 128 THEN 1
                  ELSE IF h \in 194..223 THEN 2
                  ELSE IF h \in 224..239 THEN 3
                  ELSE IF h \in 240..244 THEN 4
                  ELSE 0
         IN  /\ n > 0
             /\ Len(b) >= n
             /\ \A i \in 2..n : b[i] \in 128..191
             /\ Utf8Valid(SubSeq(b, n + 1, Len(b)))

----------------------------------------------------------------------------
(* Database::hash                                                          *)

\* md5 of a byte string.  The digest is collision-free here: the digest of
\* a string is the singleton of that string, and a 16-byte value is the set
\* of strings whose digests are XOR-ed into it.
md5_compute(bytes) == {bytes}

ZeroDigest == {}

\* byte-wise XOR of two 16-byte values
XorDigest(d, e) == (d \ e) \cup (e \ d)

\* one iteration of the loop: consume(key), consume(value), compute, fold
HashStep(digest, entry) == XorDigest(digest, md5_compute(entry[1] \o entry[2]))

RECURSIVE HashFold(_, _)
HashFold(entries, digest) ==
    IF entries = <<>> THEN digest
    ELSE HashFold(Tail(entries), HashStep(digest, Head(entries)))

\* the fingerprint: the lowercase hex rendering of the folded digest (one
\* rendering per 16-byte value, so the value itself names the shard)
hash(entries) == HashFold(entries, ZeroDigest)

----------------------------------------------------------------------------
(* serde_json: a metadata map is written as the object's members in the    *)
(* map's iteration order, and read back into a map                         *)

to_vec(entries) ==
    [i \in 1..Len(entries) |-> [name |-> entries[i][1], value |-> entries[i][2]]]

from_reader(json) == {<<json[i].name, json[i].value>> : i \in 1..Len(json)}

----------------------------------------------------------------------------
(* Database::read and Database::query                                      *)

NoneOutcome == [tag |-> "None"]
SomeOutcome(ls) == [tag |-> "Some", lines |-> ls]
ErrOutcome(key) == [tag |-> "Err", key |-> key]

\* position of the first separator in bytes, 0 when there is none
FirstSeparator(bytes) ==
    IF \E i \in 1..Len(bytes) : bytes[i] = DATA_FILE_RECORD_SEPARATOR
    THEN CHOOSE i \in 1..Len(bytes) :
            /\ bytes[i] = DATA_FILE_RECORD_SEPARATOR
            /\ \A j \in 1..(i - 1) : bytes[j] # DATA_FILE_RECORD_SEPARATOR
    ELSE 0

\* the loop of read: read_until(separator) until it reads 0 bytes, popping
\* the separator a chunk ends with
RECURSIVE ReadChunks(_)
ReadChunks(bytes) ==
    IF bytes = <<>> THEN <<>>
    ELSE LET n == FirstSeparator(bytes)
         IN  IF n = 0 THEN <<bytes>>
             ELSE <<SubSeq(bytes, 1, n - 1)>> \o ReadChunks(SubSeq(bytes, n + 1, Len(bytes)))

\* read(key): None without an open file, an error on invalid UTF-8
read(fls, dat, key) ==
    IF key \notin fls THEN NoneOutcome
    ELSE LET chunks == ReadChunks(dat[key])
         IN  IF \E i \in 1..Len(chunks) : ~Utf8Valid(chunks[i])
             THEN ErrOutcome(key)
             ELSE SomeOutcome(chunks)

\* the loop of query over the fingerprints of the index entry, in order
RECURSIVE QueryLoop(_, _, _, _)
QueryLoop(fls, dat, keys, lines) ==
    IF keys = <<>> THEN SomeOutcome(lines)
    ELSE LET r == read(fls, dat, Head(keys))
         IN  IF r.tag = "Err" THEN r
             ELSE QueryLoop(fls, dat, Tail(keys),
                            IF r.tag = "Some" THEN lines \o r.lines ELSE lines)

\* a lookup that yields the empty list for a pair without an index entry
query_absentAsEmpty(idx, fls, dat, kv, keys) ==
    IF kv \notin DOMAIN idx THEN SomeOutcome(<<>>)
    ELSE QueryLoop(fls, dat, keys, <<>>)

\* a lookup that fails when any open shard of the store is corrupt
query_failOnAnyCorrupt(idx, fls, dat, kv, keys) ==
    IF kv \notin DOMAIN idx THEN NoneOutcome
    ELSE IF \E k \in fls : read(fls, dat, k).tag = "Err"
         THEN ErrOutcome(CHOOSE k \in fls : read(fls, dat, k).tag = "Err")
         ELSE QueryLoop(fls, dat, keys, <<>>)

\* query(key, value); keys is the iteration order of the entry's HashSet
query(idx, fls, dat, kv, keys) ==
    IF kv \notin DOMAIN idx THEN NoneOutcome
    ELSE QueryLoop(fls, dat, keys, <<>>)

KeyOrders(idx, kv) == IF kv \in DOMAIN idx THEN Orderings(idx[kv]) ELSE {<<>>}

\* every outcome query(kv) can have on a store
QueryOutcomes(idx, fls, dat, kv) ==
    {query(idx, fls, dat, kv, keys) : keys \in KeyOrders(idx, kv)}

----------------------------------------------------------------------------
(* Database::open and Database::write                                      *)

\* index.entry(pair) that starts a fresh key set for every metadata file
IndexInsert_replace(idx, pair, key) ==
    IF pair \in DOMAIN idx THEN [idx EXCEPT ![pair] = {key}]
    ELSE idx @@ (pair :> {key})

\* index.entry(pair).or_insert_with(HashSet::new), then insert(key)
IndexInsert(idx, pair, key) ==
    IF pair \in DOMAIN idx THEN [idx EXCEPT ![pair] = @ \cup {key}]
    ELSE idx @@ (pair :> {key})

RECURSIVE IndexInsertAll(_, _, _)
IndexInsertAll(idx, entries, key) ==
    IF entries = <<>> THEN idx
    ELSE IndexInsertAll(IndexInsert(idx, Head(entries), key), Tail(entries), key)

\* the MetadataFile arm of open for the .json files in stems (read_dir
\* order); ord[f] is the iteration order of the map parsed from f.json
RECURSIVE OpenIndex(_, _, _, _)
OpenIndex(json, stems, ord, idx) ==
    IF stems = <<>> THEN idx
    ELSE LET entries == ord[Head(stems)]
         IN  OpenIndex(json, Tail(stems), ord,
                       IndexInsertAll(idx, entries, hash(entries)))

EmptyIndex == [p \in {} |-> {}]

\* the iteration orders open may see for the parsed metadata files
RECURSIVE ParseOrdersOf(_, _)
ParseOrdersOf(json, stems) ==
    IF stems = {} THEN {[f \in {} |-> <<>>]}
    ELSE LET f == CHOOSE g \in stems : TRUE
         IN  {ord @@ (f :> o) : ord \in ParseOrdersOf(json, stems \ {f}),
                                o \in Orderings(from_reader(json[f]))}

ParseOrders(json) == ParseOrdersOf(json, DOMAIN json)

NoQuery == [kv |-> <<>>, outcome |-> NoneOutcome, asked |-> FALSE]

\* the store after Database::open on an empty data directory
StoreState ==
    /\ datFiles = [f \in {} |-> <<>>]
    /\ jsonFiles = [f \in {} |-> <<>>]
    /\ files = {}
    /\ index = EmptyIndex
    /\ written = <<>>
    /\ lastQuery = NoQuery

\* write(entry) that writes the metadata file on every write
Write_rewriteMetadata(line, entries) ==
    LET key == hash(entries)
    IN  /\ Len(written) < MaxWrites
        /\ index' = IndexInsertAll(index, entries, key)
        /\ jsonFiles' = IF key \in DOMAIN jsonFiles
                         THEN [jsonFiles EXCEPT ![key] = to_vec(entries)]
                         ELSE jsonFiles @@ (key :> to_vec(entries))
        /\ IF key \in files
           THEN /\ datFiles' = [datFiles EXCEPT
                      ![key] = @ \o <<DATA_FILE_RECORD_SEPARATOR>> \o line]
                /\ UNCHANGED files
           ELSE /\ datFiles' = IF key \in DOMAIN datFiles
                               THEN [datFiles EXCEPT ![key] = @ \o line]
                               ELSE datFiles @@ (key :> line)
                /\ files' = files \cup {key}
        /\ written' = Append(written, [line |-> line, metadata |-> SeqToSet(entries)])
        /\ lastQuery' = NoQuery
        /\ UNCHANGED collectorVars
        /\ UNCHANGED <<openVars, kubeVars, eventVars>>

\* write(entry): entries is the iteration order of entry.metadata
Write(line, entries) ==
    LET key == hash(entries)
    IN  /\ Len(written) < MaxWrites
        /\ index' = IndexInsertAll(index, entries, key)
        /\ IF key \in files
           THEN /\ datFiles' = [datFiles EXCEPT
                      ![key] = @ \o <<DATA_FILE_RECORD_SEPARATOR>> \o line]
                /\ UNCHANGED <<jsonFiles, files>>
           ELSE /\ jsonFiles' = IF key \in DOMAIN jsonFiles
                                THEN [jsonFiles EXCEPT ![key] = to_vec(entries)]
                                ELSE jsonFiles @@ (key :> to_vec(entries))
                /\ datFiles' = IF key \in DOMAIN datFiles
                               THEN [datFiles EXCEPT ![key] = @ \o line]
                               ELSE datFiles @@ (key :> line)
                /\ files' = files \cup {key}
        /\ written' = Append(written, [line |-> line, metadata |-> SeqToSet(entries)])
        /\ lastQuery' = NoQuery
        /\ UNCHANGED collectorVars
        /\ UNCHANGED <<openVars, kubeVars, eventVars>>

\* the longest data file a write that fails part-way still adds bytes to
MaxShardBytes == 2

\* the I/O calls of write that return io::Result, in the order write makes
\* them: fs::write of the metadata file, OpenOptions::open of the data
\* file, write_all of the separator, write_all of the line
WriteSteps == {"metadata", "data_open", "separator", "line"}

\* the bytes a write_all that fails may have put into the file before
ProperPrefixes(bytes) == {SubSeq(bytes, 1, n) : n \in 0..(Len(bytes) - 1)}

\* write(entry) whose I/O call `at` returns an error, which `?` returns to
\* the caller; the index was updated before it, and partial is what the
\* failing write_all of the line had written
WriteFails(line, entries, at, partial) ==
    LET key == hash(entries)
        withJson == IF key \in DOMAIN jsonFiles
                    THEN [jsonFiles EXCEPT ![key] = to_vec(entries)]
                    ELSE jsonFiles @@ (key :> to_vec(entries))
    IN  /\ Len(written) < MaxWrites
        /\ index' = IndexInsertAll(index, entries, key)
        /\ IF key \in files
           THEN /\ at \in {"separator", "line"}
                /\ at = "separator" => partial = <<>>
                /\ at = "line" => /\ partial \in ProperPrefixes(line)
                                  /\ Len(datFiles[key]) < MaxShardBytes
                /\ datFiles' = IF at = "separator" THEN datFiles
                               ELSE [datFiles EXCEPT
                                       ![key] = @ \o <<DATA_FILE_RECORD_SEPARATOR>> \o partial]
                /\ UNCHANGED <<jsonFiles, files>>
           ELSE /\ at \in {"metadata", "data_open", "line"}
                /\ at # "line" => partial = <<>>
                /\ at = "line" => /\ partial \in ProperPrefixes(line)
                                  /\ key \in DOMAIN datFiles => Len(datFiles[key]) < MaxShardBytes
                /\ jsonFiles' = IF at = "metadata" THEN jsonFiles ELSE withJson
                /\ datFiles' = IF at # "line" THEN datFiles
                               ELSE IF key \in DOMAIN datFiles
                                    THEN [datFiles EXCEPT ![key] = @ \o partial]
                                    ELSE datFiles @@ (key :> partial)
                /\ files' = IF at = "line" THEN files \cup {key} ELSE files
        /\ lastQuery' = NoQuery
        /\ UNCHANGED written
        /\ UNCHANGED collectorVars
        /\ UNCHANGED <<openVars, kubeVars, eventVars>>
        /\ UNCHANGED apiVars

\* the index open builds from a data directory, for every read_dir order
\* and every iteration order of the parsed maps
OpenIndexes(json) ==
    {OpenIndex(json, stems, ord, EmptyIndex) :
        stems \in Orderings(DOMAIN json), ord \in ParseOrders(json)}

\* the DataFile arm of open: every .dat file is opened and kept by its stem
OpenFiles(dat) == DOMAIN dat

\* drop the Database and open the same data directory again
Reopen ==
    /\ written # <<>>
    /\ index' \in OpenIndexes(jsonFiles)
    /\ files' = OpenFiles(datFiles)
    /\ lastQuery' = NoQuery
    /\ UNCHANGED collectorVars
    /\ UNCHANGED <<openVars, kubeVars, eventVars>>
    /\ UNCHANGED apiVars
    /\ UNCHANGED <<datFiles, jsonFiles, written>>

Query(kv, keys) ==
    /\ lastQuery' = [kv |-> kv, outcome |-> query(index, files, datFiles, kv, keys),
                     asked |-> TRUE]
    /\ UNCHANGED <<datFiles, jsonFiles, files, index, written>>
    /\ UNCHANGED collectorVars
    /\ UNCHANGED <<openVars, kubeVars, eventVars>>
    /\ UNCHANGED apiVars

StoreNext ==
    \/ \E line \in StoreLines, m \in MetadataMaps :
          \E entries \in Orderings(m) : Write(line, entries) /\ UNCHANGED apiVars
    \/ Reopen
    \/ \E kv \in AllPairs : \E keys \in KeyOrders(index, kv) : Query(kv, keys)

------------------------------------------------------------\* the lines and the maps of the writes that may fail
FaultLines == {<<120>>, <<195, 147>>}
FaultMaps == {m \in MetadataMaps : m # {} /\ \A e \in m : e[2] = <<99>>}

\* a store whose writes may fail part-way
FaultNext ==
    \/ \E line \in FaultLines, m \in FaultMaps :
          \E entries \in Orderings(m) : Write(line, entries) /\ UNCHANGED apiVars
    \/ \E line \in FaultLines, m \in FaultMaps, at \in WriteSteps :
          \E entries \in Orderings(m), partial \in ProperPrefixes(line) :
             WriteFails(line, entries, at, partial)
    \/ Reopen

----------------
(* The HTTP API: GET /logs/:key/*value served by read_logs over the store  *)
(* behind Arc<RwLock<Database>>.  A handler takes the lock for reading       *)
(* and runs Database::query; read goes through the store's one file handle *)
(* per shard, whose offset all readers share.                              *)

\* the request handlers that can run at the same time
Handlers == {"h1", "h2"}

\* bytes of JSON text
QUOTE == 34
BACKSLASH == 92
COMMA == 44
LBRACKET == 91
RBRACKET == 93

\* serde_json: a string between quotes, quote and backslash escaped
RECURSIVE JsonEscape(_)
JsonEscape(bytes) ==
    IF bytes = <<>> THEN <<>>
    ELSE (IF Head(bytes) \in {QUOTE, BACKSLASH} THEN <<BACKSLASH, Head(bytes)>>
          ELSE <<Head(bytes)>>) \o JsonEscape(Tail(bytes))

RECURSIVE JsonItems(_)
JsonItems(lines) ==
    IF lines = <<>> THEN <<>>
    ELSE <<QUOTE>> \o JsonEscape(Head(lines)) \o <<QUOTE>>
         \o (IF Tail(lines) = <<>> THEN <<>> ELSE <<COMMA>>)
         \o JsonItems(Tail(lines))

\* tide::Body::from_json(&logs) for a Vec<String>
Body_from_json(lines) == <<LBRACKET>> \o JsonItems(lines) \o <<RBRACKET>>

\* response.body_json::<Vec<String>>(): the strings of a JSON array
RECURSIVE JsonStrings(_, _, _, _, _)
JsonStrings(body, i, inString, cur, out) ==
    IF i > Len(body) THEN out
    ELSE IF inString
         THEN IF body[i] = BACKSLASH
              THEN JsonStrings(body, i + 2, TRUE, Append(cur, body[i + 1]), out)
              ELSE IF body[i] = QUOTE
                   THEN JsonStrings(body, i + 1, FALSE, <<>>, Append(out, cur))
                   ELSE JsonStrings(body, i + 1, TRUE, Append(cur, body[i]), out)
         ELSE IF body[i] = QUOTE THEN JsonStrings(body, i + 1, TRUE, <<>>, out)
              ELSE IF body[i] = RBRACKET THEN out
                   ELSE JsonStrings(body, i + 1, FALSE, cur, out)

body_json(body) == JsonStrings(body, 1, FALSE, <<>>, <<>>)

\* read_logs that answers 404 for an empty list of lines
read_logs_emptyAsNotFound(outcome) ==
    IF outcome.tag = "Err" THEN [status |-> 500, body |-> <<>>]
    ELSE IF outcome.tag = "Some" /\ outcome.lines # <<>>
         THEN [status |-> 200, body |-> Body_from_json(outcome.lines)]
         ELSE [status |-> 404, body |-> <<>>]

\* read_logs, from the outcome of database.query(key, value): an error
\* leaves through `?` and becomes the response 500
read_logs(outcome) ==
    IF outcome.tag = "Err" THEN [status |-> 500, body |-> <<>>]
    ELSE IF outcome.tag = "Some"
         THEN [status |-> 200, body |-> Body_from_json(outcome.lines)]
         ELSE [status |-> 404, body |-> <<>>]

NoResponse == [status |-> 0, body |-> <<>>]

\* a handler with no request yet
IdleHandler ==
    [pc |-> "idle", kv |-> <<>>, todo |-> <<>>, lines |-> <<>>,
     had_entry |-> FALSE, sequential |-> NoneOutcome,
     written_before |-> <<>>, outcome |-> NoneOutcome, response |-> NoResponse]

\* the handler has run database.query to its result: it answers and its
\* read guard is dropped
Answered(hd, outcome) ==
    [hd EXCEPT !.pc = "done", !.todo = <<>>, !.outcome = outcome,
               !.response = read_logs(outcome)]

ApiStart ==
    /\ handlers = [h \in Handlers |-> IdleHandler]
    /\ filePos = EmptyMap
    /\ rwlock = {}

\* read_logs up to the index lookup of query: req.state().read().await
\* takes the lock for reading, which other readers do not exclude; keys is
\* the iteration order of the index entry
ReadLogsBegin(h, kv, keys) ==
    /\ handlers[h].pc = "idle"
    /\ LET hd == [handlers[h] EXCEPT
                    !.kv = kv,
                    !.had_entry = kv \in DOMAIN index,
                    !.sequential = query(index, files, datFiles, kv, keys),
                    !.written_before = written]
       IN  IF kv \notin DOMAIN index
           THEN /\ handlers' = [handlers EXCEPT ![h] = Answered(hd, NoneOutcome)]
                /\ UNCHANGED rwlock
           ELSE /\ handlers' = [handlers EXCEPT
                                   ![h] = [hd EXCEPT !.pc = "seek", !.todo = keys]]
                /\ rwlock' = rwlock \cup {h}
    /\ UNCHANGED filePos
    /\ UNCHANGED storeVars
    /\ UNCHANGED collectorVars
    /\ UNCHANGED <<openVars, kubeVars, eventVars>>

\* read(key) up to file.seek(SeekFrom::Start(0)): None without a file
ReadSeek(h) ==
    /\ handlers[h].pc = "seek"
    /\ LET key == Head(handlers[h].todo)
       IN  IF key \in files
           THEN /\ filePos' = MapInsert(filePos, key, 0)
                /\ handlers' = [handlers EXCEPT ![h].pc = "read"]
                /\ UNCHANGED rwlock
           ELSE /\ UNCHANGED filePos
                /\ IF Tail(handlers[h].todo) = <<>>
                   THEN /\ handlers' = [handlers EXCEPT
                               ![h] = Answered(@, SomeOutcome(handlers[h].lines))]
                        /\ rwlock' = rwlock \ {h}
                   ELSE /\ handlers' = [handlers EXCEPT ![h].todo = Tail(@)]
                        /\ UNCHANGED rwlock
    /\ UNCHANGED storeVars
    /\ UNCHANGED collectorVars
    /\ UNCHANGED <<openVars, kubeVars, eventVars>>

\* the read_until loop of read(key): the BufReader fills its buffer from the
\* handle's offset to the end of the file (a shard smaller than the buffer)
\* and the chunks are split off the bytes it got
ReadShard(h) ==
    /\ handlers[h].pc = "read"
    /\ LET key == Head(handlers[h].todo)
           chunks == ReadChunks(SubSeq(datFiles[key], filePos[key] + 1,
                                       Len(datFiles[key])))
           lines == handlers[h].lines \o chunks
       IN  /\ filePos' = MapInsert(filePos, key, Len(datFiles[key]))
           /\ IF \E i \in 1..Len(chunks) : ~Utf8Valid(chunks[i])
              THEN /\ handlers' = [handlers EXCEPT ![h] = Answered(@, ErrOutcome(key))]
                   /\ rwlock' = rwlock \ {h}
              ELSE IF Tail(handlers[h].todo) = <<>>
                   THEN /\ handlers' = [handlers EXCEPT
                               ![h] = Answered(@, SomeOutcome(lines))]
                        /\ rwlock' = rwlock \ {h}
                   ELSE /\ handlers' = [handlers EXCEPT
                               ![h] = [@ EXCEPT !.pc = "seek", !.todo = Tail(@),
                                                !.lines = lines]]
                        /\ UNCHANGED rwlock
    /\ UNCHANGED storeVars
    /\ UNCHANGED collectorVars
    /\ UNCHANGED <<openVars, kubeVars, eventVars>>

\* the ingestion loop stores a record: it takes the lock for writing, which
\* waits until no reader holds it, and runs Database::write under it; the
\* handle is in append mode and its offset ends behind the written bytes
IngestWrite(line, entries) ==
    /\ rwlock = {}
    /\ Write(line, entries)
    /\ filePos' = MapInsert(filePos, hash(entries), Len(datFiles'[hash(entries)]))
    /\ UNCHANGED <<handlers, rwlock>>

\* the shards the API is checked on: records that carry a=c, alone or
\* with ab=bc
ApiMaps == {m \in MetadataMaps : <<<<97>>, <<99>>>> \in m
                                  /\ m \subseteq {<<<<97>>, <<99>>>>, <<<<97, 98>>, <<98, 99>>>>}}

\* the pairs asked for: a=c and a pair no record carries
ApiPairs == {<<<<97>>, <<99>>>>, <<<<97>>, <<98, 99>>>>}

\* the lines ingested: "", the quote character and "Ó" (bytes C3 93)
ApiLines == {<<>>, <<QUOTE>>, <<195, 147>>}

ApiNext ==
    \/ \E line \in ApiLines, m \in ApiMaps :
          \E entries \in Orderings(m) : IngestWrite(line, entries)
    \/ \E h \in Handlers, kv \in ApiPairs :
          \E keys \in KeyOrders(index, kv) : ReadLogsBegin(h, kv, keys)
    \/ \E h \in Handlers : ReadSeek(h)
    \/ \E h \in Handlers : ReadShard(h)

----------------------------------------------------------------------------
(* The file system the collector watches.  Paths are sequences of          *)
(* components.  The root /t holds up to three entries: the regular file    *)
(* real.log, the symlink link.log -> /t/real.log and the symlink ext.log   *)
(* -> /o/ext.log, a file outside the root.  The runs with failures add    *)
(* the subdirectory sub; gone.log names a symlink whose target does not    *)
(* exist, the path canonicalize fails on, which no run creates.  In the    *)
(* runs over a root that is itself a symlink, /t -> /o, ext.log is the     *)
(* file /o/ext.log seen through the root and alias.log a symlink to        *)
(* /t/ext.log.                                                             *)

MaxAppends == 2
MaxTruncates == 1
MaxRemovals == 1

NEWLINE == 10

root_path == <<"t">>

RealName == "real.log"
LinkName == "link.log"
ExtLinkName == "ext.log"
SubName == "sub"
GoneName == "gone.log"
AliasExtName == "alias.log"
EntryNames == {RealName, LinkName, ExtLinkName}

\* entry.path(): the root path joined with the entry's name
EntryPath(name) == Append(root_path, name)

RealPath == EntryPath(RealName)
LinkPath == EntryPath(LinkName)
ExtLinkPath == EntryPath(ExtLinkName)
ExtTarget == <<"o", ExtLinkName>>
SubPath == EntryPath(SubName)
GonePath == EntryPath(GoneName)
AliasExtPath == EntryPath(AliasExtName)

FilePaths == {RealPath, ExtTarget}

\* Path::canonicalize: symlinks resolved.  alias.log is a symlink to
\* /t/ext.log; the root itself resolves to root_target.
canonicalize(path) ==
    IF path = LinkPath THEN RealPath
    ELSE IF path = ExtLinkPath THEN ExtTarget
    ELSE IF path = AliasExtPath THEN ExtTarget
    ELSE IF path = root_path THEN root_target
    ELSE path

\* Path::canonicalize fails on a symlink whose target does not exist
CanonicalizeFails(path) == path = GonePath

\* Path::is_file of a canonical path
is_file(path) == path \in FilePaths

\* Path::starts_with: a prefix of whole components
starts_with(path, base) ==
    /\ Len(base) <= Len(path)
    /\ SubSeq(path, 1, Len(base)) = base

\* what the environment appends with one write: "a\n" or "b"
Chunks == {<<97, NEWLINE>>, <<98>>}

\* writes that cut the two bytes of U+00D3 apart: "a\n", 0xC3, 0x93 "\n"
SplitChunks == {<<97, NEWLINE>>, <<195>>, <<147, NEWLINE>>}

\* what a file may hold before the collector starts: nothing, or "o\n"
InitialContents == {<<>>, <<111, NEWLINE>>}

\* metadata().len() of the file behind a descriptor (a directory holds no
\* bytes to read)
FileLen(cont, wd) == IF wd \in DOMAIN cont THEN Len(cont[wd]) ELSE 0

FileBytes(cont, wd) == IF wd \in DOMAIN cont THEN cont[wd] ELSE <<>>

\* one more call recorded for path in a table path -> number of calls
CountCall(calls, path) ==
    MapInsert(calls, path, IF path \in DOMAIN calls THEN calls[path] + 1 ELSE 1)

----------------------------------------------------------------------------
(* Collector: the state its methods work on is the record                  *)
(*   [watched_files, watched_paths]  of the Collector's two tables, with   *)
(*   [preLen, truncPending, watch_calls, entries, drains, open_fails, err] *)
(*   carried along: the history of the run, the entries collected so far   *)
(*   by collect_entries and its reads, whether File::open fails during     *)
(*   this call, and whether an io::Error has been returned with `?`.       *)

WatchedFile(paths, pos) == [paths |-> paths, pos |-> pos, entry_buf |-> <<>>]

\* watcher.watch_file(path) was called
WatchFileCalled(wc, path) == [wc EXCEPT !.file = CountCall(@, path)]

\* File::open(path) succeeded
FileOpened(wc, path) == [wc EXCEPT !.open = CountCall(@, path)]

\* handle_event_create with its choices open, for comparison with the
\* method below: whether an alias is looked up, the offset the reader
\* starts at, whether a canonical path outside the root is listed, and
\* whether watched_paths is filled before File::open
CreateVariant(st, cont, path, canonical_path, alias, pos, anyTarget, early) ==
    IF alias /\ canonical_path \in DOMAIN st.watched_paths
    THEN LET wd == st.watched_paths[canonical_path]
         IN  [st EXCEPT
                !.watched_files[wd].paths = Append(@, path),
                !.watched_paths = MapInsert(@, path, wd)]
    ELSE LET wd == canonical_path
             called == [st EXCEPT !.watch_calls = WatchFileCalled(@, canonical_path)]
             paths == <<path>> \o
                      (IF canonical_path # path
                          /\ (anyTarget \/ starts_with(canonical_path, root_path))
                       THEN <<canonical_path>> ELSE <<>>)
             wp == MapInsert(IF canonical_path # path
                             THEN MapInsert(st.watched_paths, canonical_path, wd)
                             ELSE st.watched_paths,
                             path, wd)
         IN  IF st.open_fails
             THEN [called EXCEPT !.err = TRUE,
                                 !.watched_paths = IF early THEN wp ELSE @]
             ELSE [called EXCEPT
                     !.watch_calls = FileOpened(@, canonical_path),
                     !.watched_paths = wp,
                     !.watched_files = IF wd \in DOMAIN @ THEN @
                                       ELSE MapInsert(@, wd, WatchedFile(paths, pos)),
                     !.preLen = MapInsert(@, wd, FileLen(cont, wd))]

\* handle_event_create on a canonical path that opens the file at offset 0
handle_event_create_fromStart(st, cont, path, canonical_path) ==
    CreateVariant(st, cont, path, canonical_path, TRUE, 0, FALSE, FALSE)

\* handle_event_create that lists the canonical path of every symlink
handle_event_create_anyTarget(st, cont, path, canonical_path) ==
    CreateVariant(st, cont, path, canonical_path, TRUE,
                  FileLen(cont, canonical_path), TRUE, FALSE)

\* handle_event_create that opens a reader for every display path
handle_event_create_alwaysOpen(st, cont, path, canonical_path) ==
    CreateVariant(st, cont, path, canonical_path, FALSE,
                  FileLen(cont, canonical_path), FALSE, FALSE)

\* handle_event_create that fills watched_paths before it opens the file
handle_event_create_pathsFirst(st, cont, path, canonical_path) ==
    CreateVariant(st, cont, path, canonical_path, TRUE,
                  FileLen(cont, canonical_path), FALSE, TRUE)

\* handle_event_create that does not key watched_paths by the canonical
\* path of a symlink
handle_event_create_noCanonicalKey(st, cont, path, canonical_path) ==
    LET r == CreateVariant(st, cont, path, canonical_path, TRUE,
                           FileLen(cont, canonical_path), FALSE, FALSE)
    IN  IF canonical_path \in DOMAIN st.watched_paths \/ canonical_path = path \/ r.err
        THEN r
        ELSE [r EXCEPT !.watched_paths = MapInsert(st.watched_paths, path, canonical_path)]

\* handle_event_create(path, canonical_path).  The descriptor watch_file
\* returns for a canonical path is that path; the reader is opened on the
\* canonical path and sought to its end.  watch_file, File::open and seek
\* come before any change to the two tables: when File::open fails the
\* method returns the error and only the watch has been registered.
handle_event_create(st, cont, path, canonical_path) ==
    IF canonical_path \in DOMAIN st.watched_paths
    THEN LET wd == st.watched_paths[canonical_path]
         IN  [st EXCEPT
                !.watched_files[wd].paths = Append(@, path),
                !.watched_paths = MapInsert(@, path, wd)]
    ELSE LET wd == canonical_path
             called == [st EXCEPT !.watch_calls = WatchFileCalled(@, canonical_path)]
             paths == <<path>> \o
                      (IF canonical_path # path /\ starts_with(canonical_path, root_path)
                       THEN <<canonical_path>> ELSE <<>>)
             wp == IF canonical_path # path
                   THEN MapInsert(st.watched_paths, canonical_path, wd)
                   ELSE st.watched_paths
         IN  IF st.open_fails
             THEN [called EXCEPT !.err = TRUE]
             ELSE [called EXCEPT
                     !.watch_calls = FileOpened(@, canonical_path),
                     !.watched_paths = MapInsert(wp, path, wd),
                     !.watched_files = IF wd \in DOMAIN @ THEN @
                                       ELSE MapInsert(@, wd,
                                                WatchedFile(paths, FileLen(cont, wd))),
                     !.preLen = MapInsert(@, wd, FileLen(cont, wd))]

\* handle_event_truncate: seek to the start, clear the partial line
handle_event_truncate(watched_file) ==
    [watched_file EXCEPT !.pos = 0, !.entry_buf = <<>>]

\* position of the first newline in bytes, 0 when there is none
FirstNewline(bytes) ==
    IF \E i \in 1..Len(bytes) : bytes[i] = NEWLINE
    THEN CHOOSE i \in 1..Len(bytes) :
            /\ bytes[i] = NEWLINE
            /\ \A j \in 1..(i - 1) : bytes[j] # NEWLINE
    ELSE 0

\* the while loop of read_file: read_line takes the bytes up to and
\* including the next newline (or to the end of the file) from the reader;
\* when they are UTF-8 it appends them to entry_buf, otherwise it fails
\* with InvalidData and entry_buf is as before, the bytes taken all the
\* same.  A buffer that ends with the newline is popped, emitted and
\* cleared.  taken counts the bytes read.
RECURSIVE ReadLoop(_, _, _, _)
ReadLoop(bytes, line_buf, lines, taken) ==
    IF bytes = <<>>
    THEN [lines |-> lines, entry_buf |-> line_buf, taken |-> taken, err |-> FALSE]
    ELSE LET n == FirstNewline(bytes)
             piece == IF n = 0 THEN bytes ELSE SubSeq(bytes, 1, n)
         IN  IF ~Utf8Valid(piece)
             THEN [lines |-> lines, entry_buf |-> line_buf,
                   taken |-> taken + Len(piece), err |-> TRUE]
             ELSE IF n = 0
             THEN [lines |-> lines, entry_buf |-> line_buf \o piece,
                   taken |-> taken + Len(piece), err |-> FALSE]
             ELSE ReadLoop(SubSeq(bytes, n + 1, Len(bytes)), <<>>,
                           Append(lines, line_buf \o SubSeq(bytes, 1, n - 1)),
                           taken + n)

ReadLines(bytes, line_buf, lines) == ReadLoop(bytes, line_buf, lines, 0)

\* the for loop over watched_file.paths for one line: the same metadata
\* map gets "path" inserted and is cloned into each entry
RECURSIVE EntriesForLine(_, _, _)
EntriesForLine(line, paths, metadata) ==
    IF paths = <<>> THEN <<>>
    ELSE LET md == MapInsert(metadata, "path", Head(paths))
         IN  <<[line |-> line, metadata |-> md]>> \o EntriesForLine(line, Tail(paths), md)

RECURSIVE EntriesForLines(_, _)
EntriesForLines(lines, paths) ==
    IF lines = <<>> THEN <<>>
    ELSE EntriesForLine(Head(lines), paths, EmptyMap) \o EntriesForLines(Tail(lines), paths)

\* the read_file closure on the watched file of descriptor wd; kind tells
\* which event led to the read.  Reading the handle of a directory fails.
read_file(st, cont, wd, kind) ==
    LET wf == st.watched_files[wd]
        bytes == FileBytes(cont, wd)
        r == ReadLines(SubSeq(bytes, wf.pos + 1, Len(bytes)), wf.entry_buf, <<>>)
        new == EntriesForLines(r.lines, wf.paths)
    IN  IF ~is_file(wd) THEN [st EXCEPT !.err = TRUE]
        ELSE
        [st EXCEPT
            !.watched_files[wd] = [wf EXCEPT !.pos = @ + r.taken,
                                             !.entry_buf = r.entry_buf],
            !.entries = @ \o new,
            !.err = r.err,
            !.truncPending = IF wd \in DOMAIN @ THEN [@ EXCEPT ![wd] = FALSE] ELSE @,
            !.drains = Append(@, [wd |-> wd, kind |-> kind, from |-> wf.pos,
                                  pre |-> st.preLen[wd], paths |-> wf.paths,
                                  known |-> DOMAIN st.watched_paths,
                                  truncated |-> wd \in DOMAIN st.truncPending
                                                /\ st.truncPending[wd],
                                  file |-> bytes, failed |-> r.err,
                                  lines |-> r.lines, records |-> new])]

\* check_event for the root descriptor: a Create for every entry of the
\* root, in read_dir order, that is no key of watched_paths; the value is
\* [err, events], err when canonicalize fails on an entry
RECURSIVE RootCreates(_, _)
RootCreates(st, order) ==
    IF order = <<>> THEN [err |-> FALSE, events |-> <<>>]
    ELSE LET path == EntryPath(Head(order))
         IN  IF path \in DOMAIN st.watched_paths THEN RootCreates(st, Tail(order))
             ELSE IF CanonicalizeFails(path) THEN [err |-> TRUE, events |-> <<>>]
             ELSE LET rest == RootCreates(st, Tail(order))
                  IN  [err |-> rest.err,
                       events |-> IF rest.err THEN <<>>
                                  ELSE <<[path |-> path,
                                          canonical_path |-> canonicalize(path)]>>
                                       \o rest.events]

root_wd == root_path

\* the second loop of collect_entries: the Creates of one watcher event
RECURSIVE HandleCreates(_, _, _)
HandleCreates(st, cont, new_paths) ==
    IF new_paths = <<>> \/ st.err THEN st
    ELSE LET c == Head(new_paths)
             st1 == handle_event_create(st, cont, c.path, c.canonical_path)
         IN  IF st1.err THEN st1
             ELSE HandleCreates(read_file(st1, cont, st1.watched_paths[c.path],
                                          IF c.canonical_path \in DOMAIN st.watched_paths
                                          THEN "alias" ELSE "create"),
                                cont, Tail(new_paths))

\* the loop body with a check_event that fails on a descriptor that is no
\* key of watched_files
HandleWatcherEvent_errOnUnknown(st, cont, descriptor, order) ==
    IF descriptor = root_wd
    THEN LET creates == RootCreates(st, order)
         IN  IF creates.err THEN [st EXCEPT !.err = TRUE]
             ELSE HandleCreates(st, cont, creates.events)
    ELSE IF descriptor \notin DOMAIN st.watched_files
    THEN [st EXCEPT !.err = TRUE]
    ELSE IF st.watched_files[descriptor].pos <= FileLen(cont, descriptor)
    THEN read_file(st, cont, descriptor, "append")
    ELSE read_file([st EXCEPT !.watched_files[descriptor] = handle_event_truncate(@)],
                   cont, descriptor, "truncate")

\* the body of collect_entries' loop for one watcher event: check_event,
\* then the reads of Append and Truncate, then the deferred Creates
HandleWatcherEvent(st, cont, descriptor, order) ==
    IF descriptor = root_wd
    THEN LET creates == RootCreates(st, order)
         IN  IF creates.err THEN [st EXCEPT !.err = TRUE]
             ELSE HandleCreates(st, cont, creates.events)
    ELSE IF descriptor \notin DOMAIN st.watched_files
    THEN st
    ELSE IF st.watched_files[descriptor].pos <= FileLen(cont, descriptor)
    THEN read_file(st, cont, descriptor, "append")
    ELSE read_file([st EXCEPT !.watched_files[descriptor] = handle_event_truncate(@)],
                   cont, descriptor, "truncate")

\* the loop of collect_entries over the events read; `?` leaves it at the
\* first error
RECURSIVE HandleWatcherEvents(_, _, _, _)
HandleWatcherEvents(st, cont, watcher_events, order) ==
    IF watcher_events = <<>> \/ st.err THEN st
    ELSE HandleWatcherEvents(HandleWatcherEvent(st, cont, Head(watcher_events), order),
                             cont, Tail(watcher_events), order)

\* the loop of Collector::initialize over read_dir
RECURSIVE InitializeLoop(_, _, _)
InitializeLoop(st, cont, order) ==
    IF order = <<>> \/ st.err THEN st
    ELSE LET path == EntryPath(Head(order))
         IN  InitializeLoop(IF path \in DOMAIN st.watched_paths THEN st
                            ELSE IF CanonicalizeFails(path) THEN [st EXCEPT !.err = TRUE]
                            ELSE handle_event_create(st, cont, path, canonicalize(path)),
                            cont, Tail(order))

\* the collector's state at the start of a call during which File::open
\* fails (open_fails) or works
CollectorState(open_fails) ==
    [watched_files |-> watched_files, watched_paths |-> watched_paths,
     preLen |-> preLen, truncPending |-> truncPending, watch_calls |-> watch_calls,
     entries |-> <<>>, drains |-> <<>>, open_fails |-> open_fails, err |-> FALSE]

\* no collect_entries call since the files last changed; a batch is the
\* watcher events of the call, the tables before it, whether it returned an
\* error, the entries it returned and its reads
NoBatch ==
    [called |-> FALSE, events |-> <<>>, err |-> FALSE,
     before |-> [watched_files |-> EmptyMap, watched_paths |-> EmptyMap],
     entries |-> <<>>, drains |-> <<>>]

\* Iterator::next on the collector: buf is entry_buf at the call and batch
\* what collect_entries returns when it is called ([err, entries]).  The
\* value tells whether the watcher was read, what the call returns ("record"
\* with an item, "error", or "waiting" when the loop goes round again) and
\* the new entry_buf.
next_alwaysCollect(buf, batch) ==
    IF batch.err
    THEN [read |-> TRUE, tag |-> "error", item |-> <<>>, entry_buf |-> buf]
    ELSE IF batch.entries = <<>>
    THEN [read |-> TRUE, tag |-> "waiting", item |-> <<>>, entry_buf |-> <<>>]
    ELSE [read |-> TRUE, tag |-> "record", item |-> <<Head(batch.entries)>>,
          entry_buf |-> Tail(batch.entries)]

next_endOnError(buf, batch) ==
    IF buf # <<>>
    THEN [read |-> FALSE, tag |-> "record", item |-> <<Head(buf)>>, entry_buf |-> Tail(buf)]
    ELSE IF batch.err
    THEN [read |-> TRUE, tag |-> "end", item |-> <<>>, entry_buf |-> buf]
    ELSE IF batch.entries = <<>>
    THEN [read |-> TRUE, tag |-> "waiting", item |-> <<>>, entry_buf |-> <<>>]
    ELSE [read |-> TRUE, tag |-> "record", item |-> <<Head(batch.entries)>>,
          entry_buf |-> Tail(batch.entries)]

next(buf, batch) ==
    IF buf # <<>>
    THEN [read |-> FALSE, tag |-> "record", item |-> <<Head(buf)>>, entry_buf |-> Tail(buf)]
    ELSE IF batch.err
    THEN [read |-> TRUE, tag |-> "error", item |-> <<>>, entry_buf |-> buf]
    ELSE IF batch.entries = <<>>
    THEN [read |-> TRUE, tag |-> "waiting", item |-> <<>>, entry_buf |-> <<>>]
    ELSE [read |-> TRUE, tag |-> "record", item |-> <<Head(batch.entries)>>,
          entry_buf |-> Tail(batch.entries)]

NoNext == [tag |-> "none", read |-> FALSE, item |-> <<>>, before |-> <<>>,
           batch |-> <<>>, after_error |-> FALSE]

NoBudget == [appends |-> 0, truncates |-> 0, removals |-> 0]

NoCalls == [dir |-> EmptyMap, file |-> EmptyMap, open |-> EmptyMap]

\* the lines each read of a batch took, added to the lines per descriptor
RECURSIVE EmitLines(_, _)
EmitLines(em, drains) ==
    IF drains = <<>> THEN em
    ELSE EmitLines(MapInsert(em, Head(drains).wd,
                             (IF Head(drains).wd \in DOMAIN em
                              THEN em[Head(drains).wd] ELSE <<>>)
                             \o Head(drains).lines),
                   Tail(drains))

----------------------------------------------------------------------------
(* Actions of the collector and of its environment                         *)

\* the collector before Collector::initialize, over a root directory that
\* holds any of the entries (a symlink only with its target)
CollectorStart ==
    /\ dirEntries \in {d \in SUBSET EntryNames : LinkName \in d => RealName \in d}
    /\ content \in [FilePaths -> InitialContents]
    /\ (RealName \notin dirEntries => content[RealPath] = <<>>)
    /\ root_target = root_path
    /\ pending = <<>>
    /\ phase = "new"
    /\ watched_files = EmptyMap
    /\ watched_paths = EmptyMap
    /\ preLen = [f \in FilePaths |-> 0]
    /\ truncPending = [f \in FilePaths |-> FALSE]
    /\ budget = NoBudget
    /\ lastBatch = NoBatch
    /\ entry_buf = <<>>
    /\ lastNext = NoNext
    /\ watch_calls = NoCalls
    /\ emitted = EmptyMap

\* Collector::initialize; order is the order read_dir lists the root in.
\* When it fails no collector exists.
Initialize(order, open_fails) ==
    /\ phase = "new"
    /\ \E st \in {InitializeLoop(
                    [CollectorState(open_fails) EXCEPT
                        !.watch_calls.dir = CountCall(@, canonicalize(root_path))],
                    content, order)} :
           /\ watch_calls' = st.watch_calls
           /\ IF st.err
              THEN /\ phase' = "failed"
                   /\ UNCHANGED <<watched_files, watched_paths, preLen>>
              ELSE /\ phase' = "running"
                   /\ watched_files' = st.watched_files
                   /\ watched_paths' = st.watched_paths
                   /\ preLen' = st.preLen
    /\ UNCHANGED <<dirEntries, content, pending, truncPending, budget, lastBatch,
                   entry_buf, lastNext, emitted>>
    /\ UNCHANGED root_target
    /\ UNCHANGED storeVars
    /\ UNCHANGED apiVars
    /\ UNCHANGED <<openVars, kubeVars, eventVars>>

\* collect_entries called on its own, as the tests do: read_events_blocking
\* returns every unread event
CollectEntries(order, open_fails) ==
    /\ phase = "running"
    /\ pending # <<>>
    /\ \E st \in {HandleWatcherEvents(CollectorState(open_fails), content, pending, order)} :
           /\ watched_files' = st.watched_files
           /\ watched_paths' = st.watched_paths
           /\ preLen' = st.preLen
           /\ truncPending' = st.truncPending
           /\ watch_calls' = st.watch_calls
           /\ lastBatch' = [called |-> TRUE, events |-> pending, err |-> st.err,
                            before |-> [watched_files |-> watched_files,
                                        watched_paths |-> watched_paths],
                            entries |-> IF st.err THEN <<>> ELSE st.entries,
                            drains |-> st.drains]
    /\ pending' = <<>>
    /\ UNCHANGED <<dirEntries, content, phase, budget, entry_buf, lastNext, emitted>>
    /\ UNCHANGED root_target
    /\ UNCHANGED storeVars
    /\ UNCHANGED apiVars
    /\ UNCHANGED <<openVars, kubeVars, eventVars>>

\* one call of next(), or one round of its loop: with entry_buf empty it
\* waits in read_events_blocking until there are events
NextRecord(order, open_fails) ==
    /\ phase = "running"
    /\ entry_buf # <<>> \/ pending # <<>>
    /\ \E st \in {HandleWatcherEvents(CollectorState(open_fails), content, pending, order)} :
       \E r \in {next(entry_buf, [err |-> st.err, entries |-> st.entries])} :
           /\ entry_buf' = r.entry_buf
           /\ lastNext' = [tag |-> r.tag, read |-> r.read, item |-> r.item,
                           before |-> entry_buf,
                           batch |-> IF r.read /\ ~st.err THEN st.entries ELSE <<>>,
                           after_error |-> lastNext.tag = "error"
                                           \/ (lastNext.tag = "waiting"
                                               /\ lastNext.after_error)]
           /\ IF r.read
              THEN /\ pending' = <<>>
                   /\ watched_files' = st.watched_files
                   /\ watched_paths' = st.watched_paths
                   /\ preLen' = st.preLen
                   /\ truncPending' = st.truncPending
                   /\ watch_calls' = st.watch_calls
                   /\ emitted' = IF st.err THEN emitted ELSE EmitLines(emitted, st.drains)
              ELSE UNCHANGED <<pending, watched_files, watched_paths, preLen,
                               truncPending, watch_calls, emitted>>
    /\ UNCHANGED <<dirEntries, content, phase, budget, lastBatch>>
    /\ UNCHANGED root_target
    /\ UNCHANGED storeVars
    /\ UNCHANGED apiVars
    /\ UNCHANGED <<openVars, kubeVars, eventVars>>

\* the watcher queues an event for a write to a watched file
FileEvent(file) ==
    IF file \in DOMAIN watched_files
    THEN Append(pending, file) ELSE pending

FileExists(file) == file = ExtTarget \/ RealName \in dirEntries

\* a new entry appears in the root (a new regular file is empty)
CreateEntry(name) ==
    /\ phase = "running"
    /\ name \notin dirEntries
    /\ name = LinkName => RealName \in dirEntries
    /\ name = AliasExtName => ExtLinkName \in dirEntries
    /\ dirEntries' = dirEntries \cup {name}
    /\ pending' = Append(pending, root_wd)
    /\ lastBatch' = NoBatch
    /\ UNCHANGED <<content, phase, watched_files, watched_paths, preLen,
                   truncPending, budget, entry_buf, lastNext, watch_calls, emitted>>
    /\ UNCHANGED root_target
    /\ UNCHANGED storeVars
    /\ UNCHANGED apiVars
    /\ UNCHANGED <<openVars, kubeVars, eventVars>>

\* a symlink is removed from the root; the watch on the root reports
\* creations only
RemoveEntry(name) ==
    /\ phase = "running"
    /\ name \in dirEntries
    /\ budget.removals < MaxRemovals
    /\ dirEntries' = dirEntries \ {name}
    /\ budget' = [budget EXCEPT !.removals = @ + 1]
    /\ lastBatch' = NoBatch
    /\ UNCHANGED <<content, pending, phase, watched_files, watched_paths, preLen,
                   truncPending, entry_buf, lastNext, watch_calls, emitted>>
    /\ UNCHANGED root_target
    /\ UNCHANGED storeVars
    /\ UNCHANGED apiVars
    /\ UNCHANGED <<openVars, kubeVars, eventVars>>

\* a writer appends a chunk to a file
AppendChunk(file, chunk) ==
    /\ phase = "running"
    /\ FileExists(file)
    /\ budget.appends < MaxAppends
    /\ content' = [content EXCEPT ![file] = @ \o chunk]
    /\ pending' = FileEvent(file)
    /\ budget' = [budget EXCEPT !.appends = @ + 1]
    /\ lastBatch' = NoBatch
    /\ UNCHANGED <<dirEntries, phase, watched_files, watched_paths, preLen,
                   truncPending, entry_buf, lastNext, watch_calls, emitted>>
    /\ UNCHANGED root_target
    /\ UNCHANGED storeVars
    /\ UNCHANGED apiVars
    /\ UNCHANGED <<openVars, kubeVars, eventVars>>

\* a writer truncates a file to length zero
TruncateFile(file) ==
    /\ phase = "running"
    /\ FileExists(file)
    /\ content[file] # <<>>
    /\ budget.truncates < MaxTruncates
    /\ content' = [content EXCEPT ![file] = <<>>]
    /\ pending' = FileEvent(file)
    /\ preLen' = [preLen EXCEPT ![file] = 0]
    /\ truncPending' = [truncPending EXCEPT ![file] = file \in DOMAIN watched_files]
    /\ budget' = [budget EXCEPT !.truncates = @ + 1]
    /\ lastBatch' = NoBatch
    /\ UNCHANGED <<dirEntries, phase, watched_files, watched_paths, entry_buf,
                   lastNext, watch_calls, emitted>>
    /\ UNCHANGED root_target
    /\ UNCHANGED storeVars
    /\ UNCHANGED apiVars
    /\ UNCHANGED <<openVars, kubeVars, eventVars>>

\* the watcher reports an event whose descriptor is neither the root's nor
\* a key of watched_files (a watch the collector holds no file for)
StrayEvent(wd) ==
    /\ phase = "running"
    /\ wd # root_wd
    /\ wd \notin DOMAIN watched_files
    /\ wd \notin SeqToSet(pending)
    /\ pending' = Append(pending, wd)
    /\ lastBatch' = NoBatch
    /\ UNCHANGED <<dirEntries, content, phase, watched_files, watched_paths, preLen,
                   truncPending, budget, entry_buf, lastNext, watch_calls, emitted>>
    /\ UNCHANGED root_target
    /\ UNCHANGED storeVars
    /\ UNCHANGED apiVars
    /\ UNCHANGED <<openVars, kubeVars, eventVars>>

\* the collector driven by collect_entries, with no I/O failure
CollectorNext ==
    \/ \E order \in Orderings(dirEntries) : Initialize(order, FALSE)
    \/ \E order \in Orderings(dirEntries) : CollectEntries(order, FALSE)
    \/ \E name \in EntryNames : CreateEntry(name)
    \/ \E file \in FilePaths, chunk \in Chunks : AppendChunk(file, chunk)
    \/ \E file \in FilePaths : TruncateFile(file)

\* the collector's tables over a root whose symlinks come and go, with no
\* I/O failure and nothing written to the files
AliasNames == {LinkName, ExtLinkName}

AliasNext ==
    \/ \E order \in Orderings(dirEntries) : Initialize(order, FALSE)
    \/ \E order \in Orderings(dirEntries) : CollectEntries(order, FALSE)
    \/ \E name \in EntryNames : CreateEntry(name)
    \/ \E name \in AliasNames : RemoveEntry(name)

\* the collector driven as a stream by next(), over a root that holds
\* real.log and gets the symlink to it and a subdirectory, with File::open
\* failing at will
StreamNames == {LinkName, SubName}

StreamStart ==
    /\ dirEntries \in {{RealName}, {RealName, LinkName}}
    /\ content = [f \in FilePaths |-> <<>>]
    /\ root_target = root_path
    /\ pending = <<>>
    /\ phase = "new"
    /\ watched_files = EmptyMap
    /\ watched_paths = EmptyMap
    /\ preLen = [f \in FilePaths |-> 0]
    /\ truncPending = [f \in FilePaths |-> FALSE]
    /\ budget = NoBudget
    /\ lastBatch = NoBatch
    /\ entry_buf = <<>>
    /\ lastNext = NoNext
    /\ watch_calls = NoCalls
    /\ emitted = EmptyMap

StreamNext ==
    \/ \E order \in Orderings(dirEntries), open_fails \in BOOLEAN :
          Initialize(order, open_fails)
    \/ \E order \in Orderings(dirEntries), open_fails \in BOOLEAN :
          NextRecord(order, open_fails)
    \/ \E name \in StreamNames : CreateEntry(name)
    \/ RemoveEntry(LinkName)
    \/ \E chunk \in SplitChunks : AppendChunk(RealPath, chunk)

\* the collector over a root that holds real.log and gets the symlink to
\* it, with events of descriptors it holds no file for
StrayDescriptors == {ExtTarget, SubPath}

StrayNames == {RealName, LinkName}

StrayStart ==
    /\ CollectorStart
    /\ dirEntries \subseteq {RealName}
    /\ content[ExtTarget] = <<>>

StrayNext ==
    \/ \E order \in Orderings(dirEntries) : Initialize(order, FALSE)
    \/ \E order \in Orderings(dirEntries) : CollectEntries(order, FALSE)
    \/ \E name \in StrayNames : CreateEntry(name)
    \/ \E chunk \in Chunks : AppendChunk(RealPath, chunk)
    \/ \E wd \in StrayDescriptors : StrayEvent(wd)

\* the collector over a configured root /t that is a symlink to the
\* directory /o: every entry resolves to a path under /o
LinkRootNames == {ExtLinkName, AliasExtName}

LinkRootStart ==
    /\ root_target = <<"o">>
    /\ dirEntries \in {d \in SUBSET LinkRootNames : AliasExtName \in d => ExtLinkName \in d}
    /\ content \in [FilePaths -> InitialContents]
    /\ content[RealPath] = <<>>
    /\ pending = <<>>
    /\ phase = "new"
    /\ watched_files = EmptyMap
    /\ watched_paths = EmptyMap
    /\ preLen = [f \in FilePaths |-> 0]
    /\ truncPending = [f \in FilePaths |-> FALSE]
    /\ budget = NoBudget
    /\ lastBatch = NoBatch
    /\ entry_buf = <<>>
    /\ lastNext = NoNext
    /\ watch_calls = NoCalls
    /\ emitted = EmptyMap

LinkRootNext ==
    \/ \E order \in Orderings(dirEntries) : Initialize(order, FALSE)
    \/ \E order \in Orderings(dirEntries) : CollectEntries(order, FALSE)
    \/ \E name \in LinkRootNames : CreateEntry(name)
    \/ \E chunk \in Chunks : AppendChunk(ExtTarget, chunk)

----------------------------------------------------------------------------
(* Database::open over a data directory that may hold any entries.  An     *)
(* entry is [stem, ext, kind, json]: its file name is stem.ext, kind says  *)
(* what fs::metadata finds behind the name (a regular file, a directory,   *)
(* or a symlink whose target does not exist), json is the content of a     *)
(* regular .json file.                                                      *)

MaxEntries == 3

MaxOpens == 2

DATA_FILE_EXTENSION == "dat"

METADATA_FILE_EXTENSION == "json"

\* the metadata maps of the shards found in the directory: {a=c} and
\* {a=c, ab=bc}, which share the pair a=c
OpenMaps == {{<<(<<97>>), (<<99>>)>>},
             {<<(<<97>>), (<<99>>)>>, <<(<<97, 98>>), (<<98, 99>>)>>}}

OpenStems == {hash(CHOOSE o \in Orderings(m) : TRUE) : m \in OpenMaps}

\* what a metadata file of the store can hold: a map as write left it
OpenJsons == UNION {{to_vec(o) : o \in Orderings(m)} : m \in OpenMaps}

DirEntryUniverse ==
    {[stem |-> s, ext |-> DATA_FILE_EXTENSION, kind |-> k, json |-> <<>>] :
        s \in OpenStems, k \in {"file", "dir", "dangling"}}
    \cup {[stem |-> s, ext |-> METADATA_FILE_EXTENSION, kind |-> "file", json |-> j] :
        s \in OpenStems, j \in OpenJsons}
    \cup {[stem |-> s, ext |-> METADATA_FILE_EXTENSION, kind |-> k, json |-> <<>>] :
        s \in OpenStems, k \in {"dir", "dangling"}}
    \cup {[stem |-> s, ext |-> "txt", kind |-> "file", json |-> <<>>] :
        s \in OpenStems}

\* entry.path(), up to the data directory it is joined to
DirEntryPath(e) == <<e.stem, e.ext>>

\* the directories: at most MaxEntries entries with distinct names
DataDirs ==
    {d \in SUBSET DirEntryUniverse :
        /\ Cardinality(d) <= MaxEntries
        /\ \A e, f \in d : DirEntryPath(e) = DirEntryPath(f) => e = f}

NoPath == <<>>

\* Ok(Database {files, index})
OpenOk(fs, idx) == [tag |-> "Ok", path |-> NoPath, files |-> fs, index |-> idx]

\* Err(Self::error(format!("invalid data file {}: ...", path.display())))
OpenFormatErr(path) ==
    [tag |-> "FormatErr", path |-> path, files |-> {}, index |-> EmptyIndex]

\* Err(e) of a failed system call, passed on with `?`: the message of the
\* operating system's error, which holds no path
OpenIoErr == [tag |-> "IoErr", path |-> NoPath, files |-> {}, index |-> EmptyIndex]

\* the loop of open over the entries in read_dir order; ord[path] is the
\* iteration order of the map parsed from the metadata file at path
RECURSIVE OpenLoop(_, _, _, _)
OpenLoop(entries, ord, fs, idx) ==
    IF entries = <<>> THEN OpenOk(fs, idx)
    ELSE LET e == Head(entries)
             path == DirEntryPath(e)
         IN  IF e.ext \notin {DATA_FILE_EXTENSION, METADATA_FILE_EXTENSION}
             THEN OpenFormatErr(path)
             ELSE IF e.kind = "dangling" THEN OpenIoErr
             ELSE IF e.kind # "file" THEN OpenFormatErr(path)
             ELSE IF e.ext = DATA_FILE_EXTENSION
             THEN OpenLoop(Tail(entries), ord, fs \cup {e.stem}, idx)
             ELSE OpenLoop(Tail(entries), ord, fs,
                           IndexInsertAll(idx, ord[path], hash(ord[path])))

\* the metadata files of a directory that open parses, by path
DirJsons(d) ==
    LET js == {e \in d : e.ext = METADATA_FILE_EXTENSION /\ e.kind = "file"}
    IN  [p \in {DirEntryPath(e) : e \in js} |->
            (CHOOSE e \in js : DirEntryPath(e) = p).json]

OpenStart ==
    /\ dataDir \in DataDirs
    /\ opened = <<>>

\* no data directory of its own: the runs of the other parts
OpenIdle ==
    /\ dataDir = {}
    /\ opened = <<>>

\* Database::open(config): entries is the order read_dir lists the
\* directory in.  It opens the files with append(true).read(true) and
\* writes nothing.
OpenDatabase(entries, ord) ==
    /\ Len(opened) < MaxOpens
    /\ opened' = Append(opened, OpenLoop(entries, ord, {}, EmptyIndex))
    /\ UNCHANGED dataDir
    /\ UNCHANGED <<storeVars, collectorVars, apiVars, kubeVars, eventVars>>

OpenNext ==
    \E entries \in Orderings(dataDir), ord \in ParseOrders(DirJsons(dataDir)) :
        OpenDatabase(entries, ord)

----------------------------------------------------------------------------
(* The Kubernetes collector (src/log_collector/kubernetes.rs): next() takes *)
(* the item of the directory collector, parses the file name of its path    *)
(* and adds the labels of the pod.  A metadata map is a function from       *)
(* label names to values; a file name is a sequence of bytes.               *)

MaxNameLen == 4

UNDERSCORE == 95

DOT == 46

\* the bytes of file names: "p", "_" and "."
NameBytes == {112, UNDERSCORE, DOT}

RECURSIVE NamesOfLen(_)
NamesOfLen(n) ==
    IF n = 0 THEN {<<>>}
    ELSE {Append(s, b) : s \in NamesOfLen(n - 1), b \in NameBytes}

\* the names read_dir can list: not empty, not "." and not ".."
KubeNames ==
    UNION {NamesOfLen(n) : n \in 1..MaxNameLen} \ {<<DOT>>, <<DOT, DOT>>}

\* the path the directory collector reports for a file of the root
KubePath(name) == EntryPath(name)

\* the index of the last "." of a name, 0 if it has none
LastDot(name) ==
    LET dots == {i \in 1..Len(name) : name[i] = DOT}
    IN  IF dots = {} THEN 0 ELSE CHOOSE i \in dots : \A j \in dots : j <= i

\* Path::file_stem of the last component: the name up to its last ".", the
\* whole name when it has no "." or only a leading one
file_stem(path) ==
    LET name == path[Len(path)]
    IN  IF LastDot(name) <= 1 THEN name ELSE SubSeq(name, 1, LastDot(name) - 1)

\* str::split('_'): the pieces between the underscores, empty ones included
RECURSIVE Split(_, _)
Split(s, piece) ==
    IF s = <<>> THEN <<piece>>
    ELSE IF Head(s) = UNDERSCORE THEN <<piece>> \o Split(Tail(s), <<>>)
    ELSE Split(Tail(s), Append(piece, Head(s)))

\* a thread that unwrapped an Err or a None
Panic == [tag |-> "panic"]

\* parse_path: collect::<Vec<_>>().try_into().unwrap() to [&str; 4]; ok
\* is whether the unwrap found four pieces
parse_path(path) ==
    LET parts == Split(file_stem(path), <<>>)
    IN  [ok |-> Len(parts) = 4, parts |-> parts]

\* what kube_client.request::<Pod> gives query_pod_metadata: an error, a
\* pod without labels, or a pod with the labels app=p or namespace=p
PodLabels == {EmptyMap, "app" :> <<112>>, "namespace" :> <<112>>}

PodOutcomes ==
    {[ok |-> FALSE, labels |-> EmptyMap]}
    \cup {[ok |-> TRUE, labels |-> l] : l \in PodLabels}

\* map.remove(key)
MapRemove(m, k) == [x \in DOMAIN m \ {k} |-> m[x]]

\* entry.metadata.insert for each label of the pod
MapExtend(m, labels) ==
    [x \in DOMAIN m \cup DOMAIN labels |->
        IF x \in DOMAIN labels THEN labels[x] ELSE m[x]]

\* the items of directory::Collector::next: the end of the stream, an
\* error, or a record with the line and the path of its file
KubeNone == [tag |-> "None"]

KubeErr == [tag |-> "Err"]

KubeSome(entry) == [tag |-> "Some", entry |-> entry]

DirectoryItems ==
    {KubeNone, KubeErr}
    \cup {KubeSome([line |-> <<120>>, metadata |-> ("path" :> KubePath(n))]) :
            n \in KubeNames}

\* the closure of next() on a record
Enrich(entry, pod) ==
    LET path == entry.metadata["path"]
        parsed == parse_path(path)
        parts == parsed.parts
        m0 == MapRemove(entry.metadata, "path")
    IN  IF ~parsed.ok THEN Panic
        ELSE LET m1 == MapInsert(m0, "pod_name", parts[1])
                 m2 == MapInsert(m1, "namespace", parts[2])
                 m3 == MapInsert(m2, "container_name", parts[3])
                 m4 == MapInsert(m3, "container_id", parts[4])
             IN  IF ~pod.ok THEN Panic
                 ELSE KubeSome([entry EXCEPT
                                   !.metadata = MapExtend(m4, pod.labels)])

\* Collector::next: self.directory.next()?, then entry.map(closure)
kube_next(item, pod) ==
    IF item.tag = "None" THEN KubeNone
    ELSE IF item.tag = "Err" THEN KubeErr
    ELSE Enrich(item.entry, pod)

KubeIdleOut == [tag |-> "idle"]

KubeStart ==
    /\ kubeIn \in DirectoryItems
    /\ kubeOut = KubeIdleOut

\* no enricher in the runs of the other parts
KubeIdle ==
    /\ kubeIn = KubeNone
    /\ kubeOut = KubeIdleOut

\* one call of next() on the item the directory collector hands over
KubeNextItem(pod) ==
    /\ kubeOut = KubeIdleOut
    /\ kubeOut' = kube_next(kubeIn, pod)
    /\ UNCHANGED kubeIn
    /\ UNCHANGED <<storeVars, collectorVars, apiVars, openVars, eventVars>>

KubeNext == \E pod \in PodOutcomes : KubeNextItem(pod)

----------------------------------------------------------------------------
(* The event database (src/database/mod.rs): Database {path, events} lives *)
(* in memory, is written to the file at path as one JSON document when it  *)
(* is dropped, and is restored from that document by open.  Labels are a   *)
(* BTreeMap: a set of <<name, value>> pairs, iterated in the order of the  *)
(* names.                                                                  *)

MaxPushes == 2

\* the paths a database is opened at: "d", and the single byte FF, a file
\* name that is not UTF-8
EventPaths == {<<100>>, <<255>>}

\* label names "l1", "l2" and label values "v1", "v2"
EventNames == {<<108, 49>>, <<108, 50>>}

EventValues == {<<118, 49>>, <<118, 50>>}

\* the label maps {l1=v1}, {l1=v2} and {l1=v1, l2=v1}
EventLabels ==
    {{<<(<<108, 49>>), (<<118, 49>>)>>},
     {<<(<<108, 49>>), (<<118, 50>>)>>},
     {<<(<<108, 49>>), (<<118, 49>>)>>, <<(<<108, 50>>), (<<118, 49>>)>>}}

\* Event {timestamp, data}: "e" at the times 0 and 1
EventPool == {[timestamp |-> t, data |-> <<101>>] : t \in {0, 1}}

\* the order of str: byte by byte, a proper prefix first
RECURSIVE StrLess(_, _)
StrLess(a, b) ==
    IF b = <<>> THEN FALSE
    ELSE IF a = <<>> THEN TRUE
    ELSE IF Head(a) # Head(b) THEN Head(a) < Head(b)
    ELSE StrLess(Tail(a), Tail(b))

\* BTreeMap::iter: the pairs in the order of their names
BTreeOrder(labels) ==
    CHOOSE o \in Orderings(labels) :
        \A i, j \in 1..Len(o) : i < j => StrLess(o[i][1], o[j][1])

\* BTreeMap::get(name) == Some(value)
LabelsGet(labels, name, value) == <<name, value>> \in labels

\* serde_json of Labels: an object with the members in iteration order
LabelsToJson(labels) ==
    LET o == BTreeOrder(labels)
    IN  [i \in 1..Len(o) |-> [name |-> o[i][1], value |-> o[i][2]]]

LabelsFromJson(json) == {<<json[i].name, json[i].value>> : i \in 1..Len(json)}

\* serde_json of Event: {"timestamp": n, "data": [bytes as numbers]}
EventToJson(event) == [timestamp |-> event.timestamp, data |-> event.data]

EventFromJson(json) == [timestamp |-> json.timestamp, data |-> json.data]

\* serde::Serialize of PathBuf: the path as a str, an error when the path
\* is not UTF-8
PathSerializes(path) == Utf8Valid(path)

\* what to_writer leaves in the file: the whole document, or the bytes
\* written up to the error (`{"path":`), which is no JSON document
DocumentJson(path, events) ==
    [complete |-> TRUE,
     path |-> path,
     events |-> [i \in 1..Len(events) |->
                    <<LabelsToJson(events[i][1]), EventToJson(events[i][2])>>]]

PartialJson == [complete |-> FALSE, path |-> <<>>, events |-> <<>>]

to_writer(db) ==
    IF PathSerializes(db.path) THEN DocumentJson(db.path, db.events)
    ELSE PartialJson

NoFile == [exists |-> FALSE, json |-> PartialJson]

FileOf(json) == [exists |-> TRUE, json |-> json]

NoDb == [state |-> "closed", path |-> <<>>, events |-> <<>>]

OpenDb(path, events) == [state |-> "open", path |-> path, events |-> events]

\* Err(OpenError::Restore(RestoreError::Deserialize(_)))
OpenFailed == [state |-> "open_failed", path |-> <<>>, events |-> <<>>]

\* the thread panicked in drop: expect("serialize database")
DropPanicked == [state |-> "panicked", path |-> <<>>, events |-> <<>>]

\* serde_json::from_slice::<Database>
from_slice(json) ==
    IF json.complete
    THEN OpenDb(json.path,
                [i \in 1..Len(json.events) |->
                    <<LabelsFromJson(json.events[i][1]),
                      EventFromJson(json.events[i][2])>>])
    ELSE OpenFailed

\* Database::open(path)
event_open(path, file) ==
    IF file.exists THEN from_slice(file.json) ELSE OpenDb(path, <<>>)

\* query that matches every event labelled with the name, whatever the value
event_query_anyValue(events, name, value) ==
    LET hits == {i \in 1..Len(events) : \E p \in events[i][1] : p[1] = name}
        F[i \in 0..Len(events)] ==
            IF i = 0 THEN <<>>
            ELSE IF i \in hits THEN Append(F[i - 1], events[i][2])
            ELSE F[i - 1]
    IN  F[Len(events)]

\* Database::query(Query::Label {name, value}): filter_map over the events
\* in order, cloning the matching ones
event_query(events, name, value) ==
    LET F[i \in 0..Len(events)] ==
            IF i = 0 THEN <<>>
            ELSE IF LabelsGet(events[i][1], name, value)
                 THEN Append(F[i - 1], events[i][2])
            ELSE F[i - 1]
    IN  F[Len(events)]

NoEventQuery ==
    [asked |-> FALSE, name |-> <<>>, value |-> <<>>, result |-> <<>>,
     before |-> <<>>]

EventStart ==
    /\ evPath \in EventPaths
    /\ evFile = NoFile
    /\ evDb = NoDb
    /\ evPushed = <<>>
    /\ evQuery = NoEventQuery

\* no event database in the runs of the other parts
EventIdle ==
    /\ evPath = <<100>>
    /\ evFile = NoFile
    /\ evDb = NoDb
    /\ evPushed = <<>>
    /\ evQuery = NoEventQuery

\* Database::open(path), in a process that holds no database
EventOpen ==
    /\ evDb.state \in {"closed", "panicked"}
    /\ evDb' = event_open(evPath, evFile)
    /\ evQuery' = NoEventQuery
    /\ UNCHANGED <<evPath, evFile, evPushed>>
    /\ UNCHANGED <<storeVars, collectorVars, apiVars, openVars, kubeVars>>

\* db.push(&labels, event)
EventPush(labels, event) ==
    /\ evDb.state = "open"
    /\ Len(evPushed) < MaxPushes
    /\ evDb' = [evDb EXCEPT !.events = Append(@, <<labels, event>>)]
    /\ evPushed' = Append(evPushed, <<labels, event>>)
    /\ evQuery' = NoEventQuery
    /\ UNCHANGED <<evPath, evFile>>
    /\ UNCHANGED <<storeVars, collectorVars, apiVars, openVars, kubeVars>>

\* db.query(&Query::Label {name, value})
EventQuery(name, value) ==
    /\ evDb.state = "open"
    /\ evQuery' = [asked |-> TRUE, name |-> name, value |-> value,
                   result |-> event_query(evDb.events, name, value),
                   before |-> evDb.events]
    /\ UNCHANGED <<evPath, evFile, evDb, evPushed>>
    /\ UNCHANGED <<storeVars, collectorVars, apiVars, openVars, kubeVars>>

\* drop(db): File::create(&self.path) truncates or creates the file, then
\* to_writer writes the database into it; both are unwrapped with expect
EventDrop ==
    /\ evDb.state = "open"
    /\ evFile' = FileOf(to_writer(evDb))
    /\ evDb' = IF PathSerializes(evDb.path) THEN NoDb ELSE DropPanicked
    /\ evQuery' = NoEventQuery
    /\ UNCHANGED <<evPath, evPushed>>
    /\ UNCHANGED <<storeVars, collectorVars, apiVars, openVars, kubeVars>>

EventNext ==
    \/ EventOpen
    \/ \E labels \in EventLabels, event \in EventPool : EventPush(labels, event)
    \/ \E name \in EventNames, value \in EventValues : EventQuery(name, value)
    \/ EventDrop

----------------------------------------------------------------------------
(* Specifications, one for each part of the program                        *)

StoreInit ==
    /\ StoreState /\ ApiStart /\ OpenIdle /\ KubeIdle /\ EventIdle
    /\ CollectorStart /\ dirEntries = {} /\ content[ExtTarget] = <<>>

ApiInit == StoreInit

ApiSpec == ApiInit /\ [][ApiNext]_vars

StoreSpec == StoreInit /\ [][StoreNext]_vars

FaultInit == StoreInit

FaultSpec == FaultInit /\ [][FaultNext]_vars

CollectorInit == StoreState /\ ApiStart /\ OpenIdle /\ KubeIdle /\ EventIdle /\ CollectorStart

CollectorSpec == CollectorInit /\ [][CollectorNext]_vars

AliasInit == StoreState /\ ApiStart /\ OpenIdle /\ KubeIdle /\ EventIdle /\ CollectorStart
AliasSpec == AliasInit /\ [][AliasNext]_vars

StreamInit == StoreState /\ ApiStart /\ OpenIdle /\ KubeIdle /\ EventIdle /\ StreamStart

StreamSpec == StreamInit /\ [][StreamNext]_vars

StrayInit == StoreState /\ ApiStart /\ OpenIdle /\ KubeIdle /\ EventIdle /\ StrayStart

StraySpec == StrayInit /\ [][StrayNext]_vars

LinkRootInit == StoreState /\ ApiStart /\ OpenIdle /\ KubeIdle /\ EventIdle /\ LinkRootStart

LinkRootSpec == LinkRootInit /\ [][LinkRootNext]_vars

\* the store, the collector and the API at rest
QuietStart == StoreState /\ ApiStart /\ CollectorStart /\ dirEntries = {} /\ content[ExtTarget] = <<>>

OpenInit == QuietStart /\ OpenStart /\ KubeIdle /\ EventIdle

OpenSpec == OpenInit /\ [][OpenNext]_vars

KubeInit == QuietStart /\ OpenIdle /\ KubeStart /\ EventIdle

KubeSpec == KubeInit /\ [][KubeNext]_vars

EventInit == QuietStart /\ OpenIdle /\ KubeIdle /\ EventStart

EventSpec == EventInit /\ [][EventNext]_vars

----------------------------------------------------------------------------
(* Properties of the store                                                 *)

Meta(r) == r.metadata

WrittenMaps == {Meta(written[i]) : i \in 1..Len(written)}

WrittenPairs == UNION WrittenMaps

\* the lines of the records of ws whose metadata map is m, in write order
RECURSIVE SelectLines(_, _)
SelectLines(ws, m) ==
    IF ws = <<>> THEN <<>>
    ELSE (IF Meta(Head(ws)) = m THEN <<Head(ws).line>> ELSE <<>>)
         \o SelectLines(Tail(ws), m)

\* the lists a query for kv may return: per metadata map containing kv the
\* lines written with it, in write order, the maps in any order
ExpectedLists(kv) ==
    {Concat([i \in 1..Len(ord) |-> SelectLines(written, ord[i])]) :
        ord \in Orderings({m \in WrittenMaps : kv \in m})}

CurrentOutcomes(kv) == QueryOutcomes(index, files, datFiles, kv)

\* C1: after any sequence of writes, for every pair (k, v) some written
\* record carries, query(k, v) returns exactly the lines of the written
\* records whose metadata contains (k, v), unsplit, per shard in write
\* order, for every line including the empty line.
C1_QueryReturnsWrittenLines ==
    \A kv \in WrittenPairs :
        \A o \in CurrentOutcomes(kv) :
            o.tag = "Some" /\ o.lines \in ExpectedLists(kv)

\* what a caller can tell apart: none, a failure, or the multiset of lines
OutcomeClass(o) ==
    IF o.tag = "Some" THEN [tag |-> "Some", bag |-> BagOfSeq(o.lines)]
    ELSE [tag |-> o.tag]

\* C2: dropping the store and opening the same data directory again gives,
\* for every (label, value), the same query outcome (none, or the same
\* multiset of lines) as immediately before the drop.
C2_ReopenPreservesQueries ==
    \A idx \in OpenIndexes(jsonFiles) :
        \A kv \in AllPairs :
            {OutcomeClass(o) : o \in QueryOutcomes(idx, OpenFiles(datFiles), datFiles, kv)}
                = {OutcomeClass(o) : o \in CurrentOutcomes(kv)}

CorruptShard(key) ==
    /\ key \in files
    /\ \E i \in 1..Len(ReadChunks(datFiles[key])) :
          ~Utf8Valid(ReadChunks(datFiles[key])[i])

C4_EqualMapsOneShardBothLines ==
    \A i, j \in 1..Len(written) :
        (i < j /\ Meta(written[i]) = Meta(written[j])) =>
            LET f == hash(CHOOSE e \in Orderings(Meta(written[i])) : TRUE)
            IN  /\ \A e \in Orderings(Meta(written[j])) : hash(e) = f
                /\ f \in DOMAIN datFiles /\ f \in DOMAIN jsonFiles
                /\ \A kv \in Meta(written[i]) :
                      \A o \in CurrentOutcomes(kv) :
                          /\ o.tag = "Some"
                          /\ \E p, q \in 1..Len(o.lines) :
                                /\ p < q
                                /\ o.lines[p] = written[i].line
                                /\ o.lines[q] = written[j].line

\* C5: with a collision-free per-entry digest, two records whose metadata
\* maps differ as sets of (key, value) pairs get different fingerprints and
\* are never stored in the same shard.
C5_DifferentMapsDifferentShards ==
    \A i, j \in 1..Len(written) :
        Meta(written[i]) # Meta(written[j]) =>
            \A e \in Orderings(Meta(written[i])), g \in Orderings(Meta(written[j])) :
                hash(e) # hash(g)


----------------------------------------------------------------------------
(* Properties of the directory collector, stated on the reads of the last  *)
(* collect_entries call (lastBatch.drains) and on the entries it returned. *)

Drains == {lastBatch.drains[i] : i \in 1..Len(lastBatch.drains)}

PathMetadata(p) == [k \in {"path"} |-> p]

\* the lines of the records that carry exactly the metadata {"path": p}
RECURSIVE LinesWithPath(_, _)
LinesWithPath(records, p) ==
    IF records = <<>> THEN <<>>
    ELSE (IF Head(records).metadata = PathMetadata(p) THEN <<Head(records).line>> ELSE <<>>)
         \o LinesWithPath(Tail(records), p)

\* the newline-terminated lines of a file, newline stripped
CompleteLines(bytes) == ReadLines(bytes, <<>>, <<>>).lines

EndsWithNewline(bytes) == bytes # <<>> /\ bytes[Len(bytes)] = NEWLINE

\* C6: every line a read takes from a registered file is emitted exactly
\* once per display path of its WatchedFile, in file order, newline
\* stripped, with metadata exactly {"path": <that display path>}.
C6_OncePerDisplayPath ==
    \A d \in Drains :
        /\ \A p \in SeqToSet(d.paths) : LinesWithPath(d.records, p) = d.lines
        /\ Len(d.records) = Len(d.lines) * Cardinality(SeqToSet(d.paths))
        /\ \A i \in 1..Len(d.lines) : NEWLINE \notin SeqToSet(d.lines[i])

\* C7: content already in a file when it is registered is never emitted:
\* the read position of a watched file is never before the file's length
\* at registration, no read starts before it, and the read that follows a
\* registration starts at the end of the file and yields no records.
C7_ExistingContentNotEmitted ==
    /\ \A wd \in DOMAIN watched_files : watched_files[wd].pos >= preLen[wd]
    /\ \A d \in Drains :
        /\ d.from >= d.pre
        /\ d.kind = "create" => d.from = Len(d.file) /\ d.records = <<>>

\* C7 witness: a root rescan registered a file that already had content
\* and emitted nothing for it.
C7_Witness ==
    \E d \in Drains :
        /\ d.kind = "create"
        /\ d.file # <<>>
        /\ d.from = Len(d.file)
        /\ d.records = <<>>

\* C8: once the root's file and the symlink to it are both known, each
\* line read from the file yields exactly two records, one with path the
\* file's name and one with path the symlink's name, and no others.
C8_InternalSymlinkTwoRecords ==
    \A d \in Drains :
        (d.wd = RealPath /\ {RealPath, LinkPath} \subseteq d.known) =>
            /\ LinesWithPath(d.records, RealPath) = d.lines
            /\ LinesWithPath(d.records, LinkPath) = d.lines
            /\ Len(d.records) = 2 * Len(d.lines)

\* C9: each line read from the target of the external symlink yields
\* exactly one record, whose path is the symlink's name in the root, and
\* the target's own path is never a path value.
C9_ExternalSymlinkOneRecord ==
    /\ \A d \in Drains :
          d.wd = ExtTarget =>
             d.records = [i \in 1..Len(d.lines) |->
                            [line |-> d.lines[i], metadata |-> PathMetadata(ExtLinkPath)]]
    /\ \A i \in 1..Len(lastBatch.entries) :
          \A k \in DOMAIN lastBatch.entries[i].metadata :
             lastBatch.entries[i].metadata[k] # ExtTarget

\* C9 witness: a line appended to the external target was read.
C9_Witness ==
    \E d \in Drains :
        /\ d.wd = ExtTarget
        /\ d.lines # <<>>
        /\ Len(d.records) = Len(d.lines)

\* C10: when a watched file was truncated and newline-terminated content
\* was written to it since its last read, the next read starts at position
\* zero and emits exactly the lines of the new content.
C10_TruncationResetsPosition ==
    \A d \in Drains :
        (d.truncated /\ EndsWithNewline(d.file)) =>
            /\ d.from = 0
            /\ d.lines = CompleteLines(d.file)

----------------------------------------------------------------------------
(* Properties of the collector as a stream, with I/O failures              *)

\* a byte stream split at its newlines: the newline-terminated lines
RECURSIVE SplitAtNewlines(_)
SplitAtNewlines(bytes) ==
    IF NEWLINE \notin SeqToSet(bytes) THEN <<>>
    ELSE LET n == FirstNewline(bytes)
         IN  <<SubSeq(bytes, 1, n - 1)>> \o SplitAtNewlines(SubSeq(bytes, n + 1, Len(bytes)))

IsPrefix(s, t) == Len(s) <= Len(t) /\ SubSeq(t, 1, Len(s)) = s

\* the lines collected from a descriptor for the stream so far
EmittedLines(wd) == IF wd \in DOMAIN emitted THEN emitted[wd] ELSE <<>>

\* the bytes appended to a file since it was registered
AppendedBytes(wd) == SubSeq(content[wd], preLen[wd] + 1, Len(content[wd]))

\* C11: however the appended bytes (text in UTF-8) are split across writes
\* and events (no truncation), the lines emitted for a watched file are the
\* appended byte stream split at newlines: never anything but a prefix of
\* those lines (no fragment is emitted before its newline), and all of them
\* once the reader has reached the end of the file.
C11_PartialLinesCarried ==
    \A wd \in DOMAIN watched_files \cap FilePaths :
        Utf8Valid(AppendedBytes(wd)) =>
        /\ IsPrefix(EmittedLines(wd), SplitAtNewlines(AppendedBytes(wd)))
        /\ watched_files[wd].pos = Len(content[wd]) =>
              EmittedLines(wd) \o (IF watched_files[wd].entry_buf = <<>> THEN <<>>
                                   ELSE <<watched_files[wd].entry_buf>>)
                 = SplitAtNewlines(AppendedBytes(wd) \o
                                   (IF watched_files[wd].entry_buf = <<>> THEN <<>>
                                    ELSE <<NEWLINE>>))

\* C12: next() returns the records of a collected batch one per call in
\* the batch's order, and reads the watcher only when no collected record
\* is pending.
C12_NextYieldsBatchInOrder ==
    /\ lastNext.read => lastNext.before = <<>>
    /\ lastNext.tag = "record" =>
          /\ Len(lastNext.item) = 1
          /\ lastNext.item \o entry_buf
                = (IF lastNext.before # <<>> THEN lastNext.before ELSE lastNext.batch)

\* C12 witness: a call returned a collected record without reading the
\* watcher although events were waiting, and more records are pending.
C12_Witness ==
    /\ lastNext.tag = "record"
    /\ ~lastNext.read
    /\ pending # <<>>
    /\ entry_buf # <<>>

\* C13: next() never signals the end of the stream: a call returns a record
\* or an I/O failure, and after a failure the collector is still there to
\* be polled, its tables consistent.
C13_NeverEndOfStream ==
    /\ lastNext.tag \in {"none", "waiting", "record", "error"}
    /\ lastNext.tag = "error" =>
          /\ phase = "running"
          /\ lastNext.item = <<>>
          /\ \A p \in DOMAIN watched_paths : watched_paths[p] \in DOMAIN watched_files

\* C13 witness: the call after a failed call returned a record.
C13_Witness ==
    /\ lastNext.tag = "record"
    /\ lastNext.after_error

\* C14: watch_directory is called once, with the canonical root, and
\* watch_file only with a canonical path that points to a regular file and
\* was not passed to a watch call before.
C14_WatcherCallerResponsibilities ==
    /\ phase # "new" => watch_calls.dir = EmptyMap @@ (canonicalize(root_path) :> 1)
    /\ \A p \in DOMAIN watch_calls.file :
          /\ canonicalize(p) = p
          /\ is_file(p)
          /\ watch_calls.file[p] = 1
          /\ p \notin DOMAIN watch_calls.dir

\* C15: each tailed canonical path has one WatchedFile and one open read
\* handle: no path is opened twice, also when several display paths
\* resolve to it.
C15_OneHandlePerCanonicalPath ==
    /\ \A c \in DOMAIN watch_calls.open : watch_calls.open[c] = 1
    /\ DOMAIN watched_files = DOMAIN watch_calls.open
    /\ \A wd \in DOMAIN watched_files :
          \A i \in 1..Len(watched_files[wd].paths) :
             canonicalize(watched_files[wd].paths[i]) = wd

\* C15 witness: real.log is tailed under two display paths with one open.
C15_Witness ==
    /\ RealPath \in DOMAIN watched_files
    /\ {RealPath, LinkPath} \subseteq SeqToSet(watched_files[RealPath].paths)
    /\ watch_calls.open[RealPath] = 1

\* a path resolves, in the file system as it is now, to the canonical path c
ResolvesTo(p, c) ==
    /\ Len(p) = 2 /\ p[1] = root_path[1] => p[2] \in dirEntries
    /\ ~CanonicalizeFails(p)
    /\ canonicalize(p) = c

\* C16: every display path of a WatchedFile resolves to a canonical path
\* that is a key of watched_paths and maps to that WatchedFile's descriptor.
C16_DisplayPathsResolveToWatched ==
    \A wd \in DOMAIN watched_files :
        \A i \in 1..Len(watched_files[wd].paths) :
            \E c \in DOMAIN watched_paths :
                /\ ResolvesTo(watched_files[wd].paths[i], c)
                /\ watched_paths[c] = wd

\* C16 (as amended): every display path of a WatchedFile resolved, when it
\* was registered, to a canonical path that is a key of watched_paths and
\* maps to that WatchedFile's descriptor; a display path removed from disk
\* afterwards stays in the list.
C16_DisplayPathsRegisteredToWatched ==
    \A wd \in DOMAIN watched_files :
        \A i \in 1..Len(watched_files[wd].paths) :
            LET c == canonicalize(watched_files[wd].paths[i])
            IN  /\ c \in DOMAIN watched_paths
                /\ watched_paths[c] = wd

\* C16 witness: the symlink was removed from the root and is still a
\* display path of the file it pointed to.
C16_Witness ==
    /\ LinkName \notin dirEntries
    /\ RealPath \in DOMAIN watched_files
    /\ LinkPath \in SeqToSet(watched_files[RealPath].paths)

\* C17: every descriptor that is a value of watched_paths is a key of
\* watched_files, also after a Create handling step failed.
C17_WatchedPathsHaveWatchedFiles ==
    \A p \in DOMAIN watched_paths : watched_paths[p] \in DOMAIN watched_files

\* C17 witness: a Create handling step failed at File::open (the path was
\* passed to watch_file and is in no table) while other files are tailed.
C17_Witness ==
    /\ lastNext.tag = "error"
    /\ watched_paths # EmptyMap
    /\ \E p \in DOMAIN watch_calls.file : p \notin DOMAIN watched_paths

----------------------------------------------------------------------------
(* Properties of the HTTP API and of the lock around the store             *)

Done(h) == handlers[h].pc = "done"

\* C18: GET /logs/{key}/{value} answers 404 exactly when the index has no
\* entry for the pair, 200 with the lines as a JSON array when it has one
\* and the query succeeds (also with no lines), and 500 when the query
\* fails.
C18_StatusByQueryOutcome ==
    \A h \in Handlers :
        Done(h) =>
            LET hd == handlers[h]
                r == hd.response
            IN  /\ r.status \in {200, 404, 500}
                /\ r.status = 404 <=> ~hd.had_entry
                /\ r.status = 500 <=> hd.outcome.tag = "Err"
                /\ r.status = 200 =>
                      /\ hd.outcome.tag = "Some"
                      /\ Head(r.body) = LBRACKET
                      /\ r.body[Len(r.body)] = RBRACKET
                      /\ body_json(r.body) = hd.outcome.lines

\* C18 witness: one request was answered 200 with the empty JSON array for
\* a pair the index has, another 500 for a corrupt shard.
C18_Witness ==
    \E h, g \in Handlers :
        /\ Done(h) /\ Done(g)
        /\ handlers[h].had_entry
        /\ handlers[h].response = [status |-> 200, body |-> <<LBRACKET, RBRACKET>>]
        /\ handlers[g].response.status = 500

\* C19: no two queries scan a shard's file handle at the same time, a
\* query holding the store exclusively, and every query returns the
\* complete list: what it returns is what the query run on its own returns.
C19_QueriesHoldStoreExclusively ==
    /\ Cardinality(rwlock) <= 1
    /\ \A h \in Handlers : Done(h) => handlers[h].outcome = handlers[h].sequential

\* the lists a query for kv may return after the writes ws
ExpectedListsOf(ws, kv) ==
    LET maps == {m \in {Meta(ws[i]) : i \in 1..Len(ws)} : kv \in m}
    IN  {Concat([i \in 1..Len(ord) |-> SelectLines(ws, ord[i])]) :
            ord \in Orderings(maps)}

\* C20: a query that takes the store's lock after a write released it
\* returns every line written by that write and by all earlier writes, and
\* no part of a record.
C20_QueryAfterWriteSeesAllLines ==
    \A h \in Handlers :
        Done(h) /\ (\E i \in 1..Len(handlers[h].written_before) :
                        handlers[h].kv \in Meta(handlers[h].written_before[i])) =>
            /\ handlers[h].outcome.tag = "Some"
            /\ handlers[h].outcome.lines
                  \in ExpectedListsOf(handlers[h].written_before, handlers[h].kv)

----------------------------------------------------------------------------
(* Properties of the store's shards on disk                                *)

\* the fingerprint of a metadata map (the same for every iteration order)
FingerprintOf(m) == hash(CHOOSE entries \in Orderings(m) : TRUE)

\* the lines of the records of ws that went to the shard key, in write order
RECURSIVE ShardWrites(_, _)
ShardWrites(ws, key) ==
    IF ws = <<>> THEN <<>>
    ELSE (IF FingerprintOf(Meta(Head(ws))) = key THEN <<Head(ws).line>> ELSE <<>>)
         \o ShardWrites(Tail(ws), key)

\* lines joined by single separator bytes
RECURSIVE JoinLines(_)
JoinLines(lines) ==
    IF lines = <<>> THEN <<>>
    ELSE IF Tail(lines) = <<>> THEN Head(lines)
    ELSE Head(lines) \o <<DATA_FILE_RECORD_SEPARATOR>> \o JoinLines(Tail(lines))

\* the number of separator bytes in a data file
SeparatorCount(bytes) ==
    Cardinality({i \in 1..Len(bytes) : bytes[i] = DATA_FILE_RECORD_SEPARATOR})

\* what a scan of the shard yields: the runs between separators
ShardLines(key) == IF key \in files THEN ReadChunks(datFiles[key]) ELSE <<>>

\* C22: a query whose fingerprint set includes a shard that is not UTF-8
\* between separators fails with the corruption error naming such a
\* fingerprint; every other query succeeds with all the lines of its
\* shards, in every state, so before and after a failing query.
C22_CorruptionIsolated ==
    \A kv \in DOMAIN index :
        \A keys \in KeyOrders(index, kv) :
            LET o == query(index, files, datFiles, kv, keys)
            IN  IF \E k \in index[kv] : CorruptShard(k)
                THEN /\ o.tag = "Err"
                     /\ o.key \in index[kv]
                     /\ CorruptShard(o.key)
                ELSE o = SomeOutcome(Concat([i \in 1..Len(keys) |-> ShardLines(keys[i])]))

\* C22 witness: a query has failed on a corrupt shard and a pair whose
\* shards are sound is answered with its lines.
C22_Witness ==
    /\ lastQuery.asked
    /\ lastQuery.outcome.tag = "Err"
    /\ \E kv \in DOMAIN index :
          /\ \A k \in index[kv] : ~CorruptShard(k)
          /\ \A o \in CurrentOutcomes(kv) : o.tag = "Some" /\ o.lines # <<>>

\* C23: a shard's data file is the lines written to it joined by single
\* separator bytes, and it neither begins nor ends with the separator.
C23_DataFileIsJoinedLines ==
    \A key \in DOMAIN datFiles :
        /\ datFiles[key] = JoinLines(ShardWrites(written, key))
        /\ datFiles[key] # <<>> =>
              /\ Head(datFiles[key]) # DATA_FILE_RECORD_SEPARATOR
              /\ datFiles[key][Len(datFiles[key])] # DATA_FILE_RECORD_SEPARATOR

\* C24: the separator byte occurs in a data file only between records: a
\* shard holds one separator less than the records written to it.
C24_SeparatorOnlyBetweenRecords ==
    \A key \in DOMAIN datFiles :
        SeparatorCount(datFiles[key]) = Len(ShardWrites(written, key)) - 1

\* the fingerprints the records written so far went to
WrittenFingerprints == {FingerprintOf(Meta(written[i])) : i \in 1..Len(written)}

C27_EmptyMetadataOwnShard ==
    /\ \A i \in 1..Len(written) :
          IF Meta(written[i]) = {}
          THEN ZeroDigest \in DOMAIN datFiles
          ELSE FingerprintOf(Meta(written[i])) # ZeroDigest
    /\ \A kv \in DOMAIN index : ZeroDigest \notin index[kv]

----------------------------------------------------------------------------
(* Properties of Database::open over any data directory                    *)

\* an entry open must refuse: not a regular file, or an extension that is
\* neither dat nor json
Offending(e) ==
    \/ e.kind # "file"
    \/ e.ext \notin {DATA_FILE_EXTENSION, METADATA_FILE_EXTENSION}

\* C21: whenever the data directory holds an entry that is not a regular
\* file or whose extension is neither dat nor json, open fails with a
\* store-format error that names the path of such an entry and returns no
\* store.
C21_OpenRejectsForeignEntries ==
    \A i \in 1..Len(opened) :
        (\E e \in dataDir : Offending(e)) =>
            /\ opened[i].tag = "FormatErr"
            /\ \E e \in dataDir : Offending(e) /\ opened[i].path = DirEntryPath(e)

\* the index the metadata files of a directory describe: each pair of each
\* parsed map leads to the fingerprint of that map
DirIndex(d) ==
    LET maps == {from_reader(e.json) :
                    e \in {f \in d : f.ext = METADATA_FILE_EXTENSION}}
        pairs == UNION maps
    IN  [p \in pairs |-> {FingerprintOf(m) : m \in {n \in maps : p \in n}}]

DirShards(d) == {e.stem : e \in {f \in d : f.ext = DATA_FILE_EXTENSION}}

\* C26: open creates, deletes and modifies no file of the data directory,
\* and every successful open of the same directory contents yields the same
\* inverted index and the same set of shards: the ones the files describe,
\* whatever order read_dir lists them in.
C26_OpenIdempotent ==
    /\ [](\A i \in 1..Len(opened) :
            opened[i].tag = "Ok" =>
                /\ opened[i].index = DirIndex(dataDir)
                /\ opened[i].files = DirShards(dataDir)
                /\ \A j \in 1..Len(opened) :
                       opened[j].tag = "Ok" =>
                           /\ opened[j].index = opened[i].index
                           /\ opened[j].files = opened[i].files)
    /\ [][dataDir' = dataDir]_vars

\* two successful opens of a directory with a data file and two metadata
\* files whose maps share a pair
C26_Witness ==
    /\ Len(opened) = 2
    /\ opened[1].tag = "Ok" /\ opened[2].tag = "Ok"
    /\ opened[1].files # {}
    /\ \E p \in DOMAIN opened[1].index : Cardinality(opened[1].index[p]) = 2

----------------------------------------------------------------------------
(* Properties of the Kubernetes collector                                  *)

\* the file name follows <pod>_<namespace>_<container-name>_<container-id>:
\* its stem has four pieces
ConventionMatches(path) == Len(Split(file_stem(path), <<>>)) = 4

\* C28: a record whose path does not match the convention passes through
\* the enricher and is yielded as it came, without a panic and without
\* ending the stream.
C28_NonMatchingPassesThrough ==
    (/\ kubeIn.tag = "Some"
     /\ kubeOut # KubeIdleOut
     /\ ~ConventionMatches(kubeIn.entry.metadata["path"]))
        => kubeOut = kubeIn

----------------------------------------------------------------------------
(* Properties of the event database                                        *)

\* C29: once the database has been dropped, opening the same path again
\* yields a database in which every label query returns the events pushed
\* before the drop (and since), in push order.
C29_RestoredQueriesAgree ==
    (evFile.exists /\ evDb.state \in {"open", "open_failed"}) =>
        /\ evDb.state = "open"
        /\ \A name \in EventNames, value \in EventValues :
               event_query(evDb.events, name, value)
                   = event_query(evPushed, name, value)

\* the pushed events whose labels map name to value, in push order
PushedMatching(name, value) ==
    LET hits == SelectSeq(evPushed, LAMBDA p : <<name, value>> \in p[1])
    IN  [i \in 1..Len(hits) |-> hits[i][2]]

\* C30: query(Label {name, value}) returns exactly the pushed events whose
\* labels map name to value, in push order, and leaves the stored events as
\* they were.
C30_QueryFiltersInPushOrder ==
    evQuery.asked =>
        /\ evQuery.result = PushedMatching(evQuery.name, evQuery.value)
        /\ evDb.events = evQuery.before

\* a query of a restored database that returns the second of two pushed
\* events, the first carrying the same name with another value
C30_Witness ==
    /\ evQuery.asked
    /\ evFile.exists
    /\ Len(evPushed) = 2
    /\ evQuery.result = <<evPushed[2][2]>>
    /\ \E p \in evPushed[1][1] : p[1] = evQuery.name /\ p[2] # evQuery.value

----------------------------------------------------------------------------
(* Properties of one collect_entries call: the order of its reads, root    *)
(* rescans, stray events, truncation                                       *)

BatchDrains == lastBatch.drains

\* the read of d follows a registration by handle_event_create
AfterCreate(d) == d.kind \in {"create", "alias"}

\* the display path handle_event_create registered before the read of d
RegisteredPath(d) == d.paths[Len(d.paths)]

\* C31: within one batch of watcher events, every read triggered by an
\* Append or Truncate event comes before the registration and read of any
\* newly discovered file.
C31_CreatesDeferredToEndOfBatch ==
    \A i, j \in 1..Len(BatchDrains) :
        (i < j /\ AfterCreate(BatchDrains[i])) => AfterCreate(BatchDrains[j])

RootEntryPaths == {EntryPath(name) : name \in dirEntries}

\* C32: the root rescans of a call produce a Create for exactly the entries
\* that are no keys of watched_paths; when the call returns without error every
\* entry of the root is a key of watched_paths; and no Create registers a
\* display path that its WatchedFile already lists.
C32_RootRescanRegistersNewEntries ==
    /\ (lastBatch.called /\ SeqToSet(lastBatch.events) = {root_wd}) =>
          /\ {RegisteredPath(BatchDrains[i]) : i \in 1..Len(BatchDrains)}
                = RootEntryPaths \ DOMAIN lastBatch.before.watched_paths
          /\ \A i \in 1..Len(BatchDrains) : AfterCreate(BatchDrains[i])
    /\ (lastBatch.called /\ root_wd \in SeqToSet(lastBatch.events) /\ ~lastBatch.err) =>
          RootEntryPaths \subseteq DOMAIN watched_paths
    /\ \A i \in 1..Len(BatchDrains) :
          AfterCreate(BatchDrains[i]) =>
             RegisteredPath(BatchDrains[i])
                \notin SeqToSet(SubSeq(BatchDrains[i].paths, 1,
                                       Len(BatchDrains[i].paths) - 1))

\* the events of the last batch all carried descriptors the collector
\* holds no file for
OnlyStrayEvents ==
    /\ lastBatch.called
    /\ \A i \in 1..Len(lastBatch.events) :
          /\ lastBatch.events[i] # root_wd
          /\ lastBatch.events[i] \notin DOMAIN lastBatch.before.watched_files

\* C33: an event whose descriptor is neither the root descriptor nor a key
\* of watched_files is dropped: no record, no error, and watched_files
\* (read positions and line buffers included) and watched_paths unchanged.
C33_StrayEventDropped ==
    OnlyStrayEvents =>
        /\ ~lastBatch.err
        /\ lastBatch.entries = <<>>
        /\ lastBatch.drains = <<>>
        /\ watched_files = lastBatch.before.watched_files
        /\ watched_paths = lastBatch.before.watched_paths

\* stray events were processed by a collector that tails a file with a
\* partial line in its buffer
C33_Witness ==
    /\ OnlyStrayEvents
    /\ Len(lastBatch.events) = 2
    /\ \E wd \in DOMAIN watched_files : watched_files[wd].entry_buf # <<>>

C35_NoLineAcrossTruncation ==
    \A i \in 1..Len(BatchDrains) :
        BatchDrains[i].truncated =>
            BatchDrains[i].lines
               = ReadLines(SubSeq(BatchDrains[i].file, BatchDrains[i].from + 1,
                                  Len(BatchDrains[i].file)), <<>>, <<>>).lines

\* C36: no WatchedFile lists the same display path twice, and no read emits
\* a line more than once with the same path value.
C36_DisplayPathsDistinct ==
    /\ \A wd \in DOMAIN watched_files :
          Cardinality(SeqToSet(watched_files[wd].paths)) = Len(watched_files[wd].paths)
    /\ \A i \in 1..Len(BatchDrains) :
          \A p \in SeqToSet(BatchDrains[i].paths) :
             Len(LinesWithPath(BatchDrains[i].records, p)) = Len(BatchDrains[i].lines)

\* the complete lines the reader of wd has moved past since registration
ConsumedLines(wd) ==
    SplitAtNewlines(SubSeq(content[wd], preLen[wd] + 1, watched_files[wd].pos))

\* C37: every complete line (of UTF-8 text) the collector has consumed
\* from a file has been handed to next() (returned, or queued in entry_buf
\* to be returned by the following calls), also when a later step of the
\* same collect_entries call failed.
C37_ConsumedLinesReturned ==
    \A wd \in DOMAIN watched_files \cap FilePaths :
        Utf8Valid(content[wd]) => ConsumedLines(wd) = EmittedLines(wd)

----------------------------------------------------------------------------
(* Properties of a store whose writes may fail                             *)

\* C38: in every state of a store reached through open and write, writes
\* that failed part-way and directories left by an interrupted shard
\* creation included, every fingerprint in an index set has an open data
\* file in the file table.
C38_IndexedFingerprintsHaveFiles ==
    \A kv \in DOMAIN index : index[kv] \subseteq files

\* the step is a write that returned an error
FailedWriteStep ==
    \E line \in FaultLines, m \in FaultMaps, at \in WriteSteps :
       \E entries \in Orderings(m), partial \in ProperPrefixes(line) :
          WriteFails(line, entries, at, partial)

\* the step is a write that returned Ok
WriteStep ==
    \E line \in FaultLines, m \in FaultMaps :
       \E entries \in Orderings(m) : Write(line, entries)

\* C39: a write that returns an error leaves what queries return as it
\* was before the call, for every label pair.
C39_FailedWriteInvisible ==
    [][FailedWriteStep =>
          \A kv \in AllPairs :
             QueryOutcomes(index', files', datFiles', kv)
                = QueryOutcomes(index, files, datFiles, kv)]_vars

\* over the step, the result of a query for any label pair grows: a list
\* stays a list and, shard by shard, the earlier lines are a prefix of the
\* later lines
QueryGrows ==
    \A kv \in AllPairs :
       (\A o \in QueryOutcomes(index, files, datFiles, kv) : o.tag = "Some") =>
          /\ \A o \in QueryOutcomes(index', files', datFiles', kv) : o.tag = "Some"
          /\ \A key \in index[kv] :
                /\ key \in index'[kv]
                /\ read(files, datFiles, key).tag = "Some" =>
                      /\ read(files', datFiles', key).tag = "Some"
                      /\ IsPrefix(read(files, datFiles, key).lines,
                                  read(files', datFiles', key).lines)

\* C40: over the writes to one open store the result of a query for a
\* fixed label pair only grows: once it is a list it never is none again
\* and, shard by shard, the earlier lines are a prefix of the later lines.
C40_QueryResultsGrow ==
    [][(WriteStep \/ FailedWriteStep) => QueryGrows]_vars

====
